---- MODULE Spec2Model ----
(***************************************************************************)
(* A model of the BigIF engine (package bigif): Compile parses a script    *)
(* into an AST and buildGraph explores the reachable (knot, state) pairs   *)
(* breadth first, registering one StoryNode per canonical node ID.         *)
(*                                                                         *)
(* Conventions of the model                                                *)
(*  - Text that the engine scans (Choice.Condition, the items of           *)
(*    Choice.StateChanges, Choice.Stitch, TextBlock.Condition) is a        *)
(*    sequence of tokens; a run of blanks is the token " ".  Str joins the *)
(*    tokens into the Go string.  All other strings are TLA+ strings.      *)
(*  - A Go map is a function; reading an absent key gives the zero value   *)
(*    (MapGet).  The maps and the StoryNodes that Go reaches through       *)
(*    references live in two heaps, stateHeap and nodeHeap; a reference is *)
(*    an index into its heap and 0 is nil.                                 *)
(*  - The order in which Go ranges over a map is unspecified: where the    *)
(*    code ranges over a map and the order is visible to it, the order is  *)
(*    a choice of the action (RangeOrders).                                *)
(***************************************************************************)
EXTENDS Integers, Sequences, FiniteSets, TLC

VARIABLES
    script,      \* the input of Compile: the script text, as parse reads it
    pc,          \* the position of Compile / buildGraph
    stateHeap,   \* every map[string]bool made so far (state vectors)
    nodeHeap,    \* every StoryNode made so far
    graph,       \* graph.Graph: node ID -> *StoryNode
    queue,       \* queue: sequence of *StoryNode
    visited,     \* visited: node ID -> bool
    currentNode, \* currentNode (0 before the first iteration)
    ci,          \* index of the choice the inner loop is at
    nextNode,    \* nextNode (0 when none is pending)
    nextNodeID,  \* nextNodeID ("" when none is pending)
    ret,         \* what buildGraph returned: [graph, err]
    out,         \* what Compile returned: [json, err]
    registered,  \* history: node IDs in the order they were put in graph.Graph
    explored,    \* history: *StoryNode in the order they were dequeued
    run,         \* number of the current invocation of Compile
    firstOut,    \* what the first invocation returned (NoOut before it ends)
    calls,       \* the calls a test of the engine's functions has yet to make
    results      \* what the calls made so far returned, in order

vars ==
    << script, pc, stateHeap, nodeHeap, graph, queue, visited, currentNode, ci,
       nextNode, nextNodeID, ret, out, registered, explored, run, firstOut,
       calls, results >>

(***************************************************************************)
(* Strings and maps                                                        *)
(***************************************************************************)

\* The empty map (make(map[...]...)).
EmptyMap == << >>

\* m[k] of a Go map: the zero value (false) when k is absent.
MapGet(m, k) == IF k \in DOMAIN m THEN m[k] ELSE FALSE

\* m[k] = v of a Go map.
MapSet(m, k, v) == (k :> v) @@ m

\* The Go string of a tokenised text.
Str[tokens \in Seq(STRING)] ==
    IF tokens = << >> THEN "" ELSE Head(tokens) \o Str[Tail(tokens)]

\* strings.Contains(s, tok), on tokens.
Contains(s, tok) == \E i \in 1..Len(s) : s[i] = tok

\* strings.Split(s, sep), on tokens: Split of the empty text is one empty text.
Split[s \in Seq(STRING), sep \in STRING] ==
    IF ~Contains(s, sep) THEN << s >>
    ELSE LET i == CHOOSE j \in 1..Len(s) :
                      s[j] = sep /\ \A k \in 1..(j - 1) : s[k] # sep
         IN  << SubSeq(s, 1, i - 1) >> \o Split[SubSeq(s, i + 1, Len(s)), sep]

\* strings.TrimSpace(s), on tokens.
TrimSpace[s \in Seq(STRING)] ==
    IF s = << >> THEN s
    ELSE IF Head(s) = " " THEN TrimSpace[Tail(s)]
    ELSE IF s[Len(s)] = " " THEN TrimSpace[SubSeq(s, 1, Len(s) - 1)]
    ELSE s

\* strings.TrimPrefix(s, prefix), on tokens, for a one-token prefix.
TrimPrefix(s, prefix) == IF s # << >> /\ Head(s) = prefix THEN Tail(s) ELSE s

\* strings.Join(elems, sep), of Go strings.
Join[elems \in Seq(STRING), sep \in STRING] ==
    IF elems = << >> THEN ""
    ELSE IF Len(elems) = 1 THEN elems[1]
    ELSE elems[1] \o sep \o Join[Tail(elems), sep]

\* Mutant of FormatBool: the value is written capitalised.
FormatBoolCapital(b) == IF b THEN "True" ELSE "False"

\* fmt's %t.
FormatBool(b) == IF b THEN "true" ELSE "false"

\* The names that occur as keys of a state vector in the scripts and in the
\* calls of the model, in the byte-wise order sort.Strings compares them by.
NameOrder ==
    << "c|d", "d", "f", "f|g", "g", "global_quest_active", "has_room_key", "l", "u" >>

Names == { NameOrder[i] : i \in 1..Len(NameOrder) }

\* The place of each name in that order.
NamePlace == [n \in Names |-> CHOOSE i \in 1..Len(NameOrder) : NameOrder[i] = n]

\* a < b as Go compares strings.
StringLess(a, b) == NamePlace[a] < NamePlace[b]

\* sort.Strings(keys): the least key, then the others sorted.
SortStrings[keys \in Seq(STRING)] ==
    IF keys = << >> THEN keys
    ELSE LET i == CHOOSE k \in 1..Len(keys) :
                      \A j \in 1..Len(keys) : ~StringLess(keys[j], keys[k])
         IN  << keys[i] >>
               \o SortStrings[SubSeq(keys, 1, i - 1) \o SubSeq(keys, i + 1, Len(keys))]

\* The orders in which `for k := range m` may deliver the keys S of a map:
\* every sequence of the keys without repetition.
RECURSIVE OrdersOfKeys(_)
OrdersOfKeys(S) ==
    IF S = {} THEN { << >> }
    ELSE UNION { { << k >> \o o : o \in OrdersOfKeys(S \ {k}) } : k \in S }

RangeOrders(m) == OrdersOfKeys(DOMAIN m)

(***************************************************************************)
(* The engine's functions (graph.go)                                       *)
(***************************************************************************)

\* Mutant of partHolds: a part that is no comparison is passed over.
partHoldsLenient(part, state) ==
    LET op == IF Contains(part, "!=") THEN "!="
              ELSE IF Contains(part, "==") THEN "=="
              ELSE ""
    IN  IF op = "" THEN TRUE
        ELSE LET vals == Split[part, op]
                 stateName == Str[TrimSpace[vals[1]]]
                 valueStr == Str[TrimSpace[vals[2]]]
                 expectedValue == (valueStr = "true")
                 actualValue == MapGet(state, stateName)
             IN  IF op = "==" THEN actualValue = expectedValue
                 ELSE actualValue # expectedValue

\* One pass of evaluateCondition's loop over the parts of the condition:
\* whether the loop goes on after part (it returns false otherwise).
partHolds(part, state) ==
    LET op == IF Contains(part, "!=") THEN "!="
              ELSE IF Contains(part, "==") THEN "=="
              ELSE ""
    IN  IF op = "" THEN FALSE
        ELSE LET vals == Split[part, op]
                 stateName == Str[TrimSpace[vals[1]]]
                 valueStr == Str[TrimSpace[vals[2]]]
                 expectedValue == (valueStr = "true")
                 actualValue == MapGet(state, stateName)
             IN  IF op = "==" THEN actualValue = expectedValue
                 ELSE actualValue # expectedValue

\* Mutant of evaluateCondition: one part that holds is enough.
evaluateConditionAny(condition, state) ==
    LET parts == Split[condition, "&&"]
    IN  \E part \in { TrimSpace[parts[i]] : i \in 1..Len(parts) } :
            partHolds(part, state)

\* evaluateCondition checks if a condition string is true for a given state:
\* no part of strings.Split(condition, "&&") makes the loop return false.
evaluateCondition(condition, state) ==
    LET parts == Split[condition, "&&"]
    IN  \A part \in { TrimSpace[parts[i]] : i \in 1..Len(parts) } :
            partHolds(part, state)

\* applyStateChanges indexes parts[1] of strings.Split(change, "="): a change
\* without "=" makes it panic (index out of range).
applyStateChangesPanics(choice) ==
    \E i \in 1..Len(choice.StateChanges) : Len(Split[choice.StateChanges[i], "="]) < 2

\* Mutant of applyChanges: a flag is overwritten like any other state.
RECURSIVE applyChangesNoFlagRule(_, _, _)
applyChangesNoFlagRule(changes, nextState, ast) ==
    IF changes = << >> THEN nextState
    ELSE LET parts == Split[Head(changes), "="]
             stateName == Str[TrimSpace[parts[1]]]
             newValue == (Str[TrimSpace[parts[2]]] = "true")
         IN  applyChangesNoFlagRule(Tail(changes),
                                    MapSet(nextState, stateName, newValue), ast)

\* Mutant of applyChanges: no change of a flag is applied, to true or to
\* false.
RECURSIVE applyChangesFlagFrozen(_, _, _)
applyChangesFlagFrozen(changes, nextState, ast) ==
    IF changes = << >> THEN nextState
    ELSE LET parts == Split[Head(changes), "="]
             stateName == Str[TrimSpace[parts[1]]]
             newValue == (Str[TrimSpace[parts[2]]] = "true")
         IN  IF /\ stateName \in DOMAIN ast.GlobalStates
                /\ ast.GlobalStates[stateName]
             THEN applyChangesFlagFrozen(Tail(changes), nextState, ast)
             ELSE applyChangesFlagFrozen(Tail(changes),
                                         MapSet(nextState, stateName, newValue), ast)

\* Mutant of applyChanges: a change of a name that no header declares is
\* passed over.
RECURSIVE applyChangesDeclaredOnly(_, _, _)
applyChangesDeclaredOnly(changes, nextState, ast) ==
    IF changes = << >> THEN nextState
    ELSE LET parts == Split[Head(changes), "="]
             stateName == Str[TrimSpace[parts[1]]]
             newValue == (Str[TrimSpace[parts[2]]] = "true")
         IN  IF \/ stateName \notin DOMAIN ast.GlobalStates \cup DOMAIN ast.LocalStates
                \/ /\ stateName \in DOMAIN ast.GlobalStates
                   /\ ast.GlobalStates[stateName]
                   /\ ~newValue
             THEN applyChangesDeclaredOnly(Tail(changes), nextState, ast)
             ELSE applyChangesDeclaredOnly(Tail(changes),
                                           MapSet(nextState, stateName, newValue), ast)

\* The body of applyStateChanges' loop over choice.StateChanges.
RECURSIVE applyChanges(_, _, _)
applyChanges(changes, nextState, ast) ==
    IF changes = << >> THEN nextState
    ELSE LET parts == Split[Head(changes), "="]
             stateName == Str[TrimSpace[parts[1]]]
             newValue == (Str[TrimSpace[parts[2]]] = "true")
         IN  IF /\ stateName \in DOMAIN ast.GlobalStates
                /\ ast.GlobalStates[stateName]
                /\ ~newValue
             THEN applyChanges(Tail(changes), nextState, ast)
             ELSE applyChanges(Tail(changes), MapSet(nextState, stateName, newValue), ast)

\* Mutant of applyStateChanges: the current state is not copied into the
\* map it makes.
applyStateChangesNoCopy(currentState, choice, ast) ==
    applyChanges(choice.StateChanges, EmptyMap, ast)

\* Mutant of applyStateChanges: the changes are applied from the last to the
\* first.
applyStateChangesReversed(currentState, choice, ast) ==
    applyChanges([i \in 1..Len(choice.StateChanges) |->
                     choice.StateChanges[Len(choice.StateChanges) + 1 - i]],
                 [k \in DOMAIN currentState |-> currentState[k]], ast)

\* applyStateChanges calculates the next state based on a choice: the
\* contents of the fresh map it returns.
applyStateChanges(currentState, choice, ast) ==
    applyChanges(choice.StateChanges, [k \in DOMAIN currentState |-> currentState[k]], ast)

\* Mutant of newNextState: no map is made, the changes are written to the
\* map of the current node, which the next node then shares.
newNextStateInPlace(heap, currentState, choice, ast) ==
    LET written == [heap EXCEPT ![currentState] = applyStateChanges(@, choice, ast)]
    IN  Append(written, written[currentState])

\* The heap after nextState := applyStateChanges(currentState, choice, ast):
\* the map it makes (make(map[string]bool)) is a new one, at the end of the
\* heap, and the map of currentState is read only.
newNextState(heap, currentState, choice, ast) ==
    Append(heap, applyStateChanges(heap[currentState], choice, ast))

\* Mutant of generateNodeID: the first key delivered is left out of the sort
\* (sort.Strings(keys[1:])).
generateNodeIDSortTail(knotName, state, keys) ==
    LET stateParts[ks \in Seq(STRING)] ==
            IF ks = << >> THEN << >>
            ELSE << Head(ks) \o "=" \o FormatBool(state[Head(ks)]) >>
                   \o stateParts[Tail(ks)]
    IN  knotName \o "|"
          \o Join[stateParts[IF keys = << >> THEN keys
                             ELSE << Head(keys) >> \o SortStrings[Tail(keys)]], ","]

\* generateNodeID creates a unique, deterministic ID for a node.  keys is
\* the order in which the range over state delivered its keys; stateParts is
\* what the loop over the sorted keys appends.
generateNodeID(knotName, state, keys) ==
    LET stateParts[ks \in Seq(STRING)] ==
            IF ks = << >> THEN << >>
            ELSE << Head(ks) \o "=" \o FormatBool(state[Head(ks)]) >>
                   \o stateParts[Tail(ks)]
    IN  knotName \o "|" \o Join[stateParts[SortStrings[keys]], ","]

\* The IDs a call of generateNodeID may return, over the orders in which
\* its range over state may deliver the keys.
nodeIDs(knotName, state) ==
    UNION { { generateNodeID(k, s, keys) : keys \in RangeOrders(s) } :
            k \in {knotName}, s \in {state} }

\* Mutant of firstMatchingContent: the loop over the body has no break, so
\* the last block that matches is the one whose content stays.
RECURSIVE lastMatchingContent(_, _)
lastMatchingContent(body, state) ==
    IF body = << >> THEN ""
    ELSE LET block == body[Len(body)]
         IN  IF block.Condition = << >> \/ evaluateCondition(block.Condition, state)
             THEN block.Content
             ELSE lastMatchingContent(SubSeq(body, 1, Len(body) - 1), state)

\* The Content createNode picks: that of the first block of the body whose
\* condition is empty or true, "" when there is none.
RECURSIVE firstMatchingContent(_, _)
firstMatchingContent(body, state) ==
    IF body = << >> THEN ""
    ELSE IF Head(body).Condition = << >> \/ evaluateCondition(Head(body).Condition, state)
    THEN Head(body).Content
    ELSE firstMatchingContent(Tail(body), state)

\* createNode generates a StoryNode for a given knot and state.  state is
\* the reference to the map, which the node keeps; heap holds its contents.
createNode(knotName, knot, state, heap) ==
    [ KnotName |-> knotName,
      Scene    |-> knot.Scene,
      State    |-> state,
      Content  |-> firstMatchingContent(knot.Body, heap[state]),
      Edges    |-> << >>,
      IsEnd    |-> knot.IsEnd,
      Stitch   |-> "" ]

\* Mutant of initialStateOf: the local states are left out.
initialStateOfGlobalsOnly(ast) == [k \in DOMAIN ast.GlobalStates |-> FALSE]

\* Mutant of initialStateOf: no state gets an initial value.
initialStateOfNothing(ast) == EmptyMap

\* The initial state buildGraph builds: every key of GlobalStates and of
\* LocalStates set to false.
initialStateOf(ast) ==
    [k \in DOMAIN ast.GlobalStates \cup DOMAIN ast.LocalStates |-> FALSE]

\* Mutant of sceneChanges: every choice is taken to change the scene.
sceneChangesAlways(currentKnot, targetKnot) == TRUE

\* currentKnot.Scene != targetKnot.Scene, the test before the purge.
sceneChanges(currentKnot, targetKnot) == currentKnot.Scene # targetKnot.Scene

\* Mutant of purgeLocalStates: every state is set to false.
purgeLocalStatesAndOthers(nextState, ast) ==
    [k \in DOMAIN nextState \cup DOMAIN ast.LocalStates |-> FALSE]

\* Mutant of purgeLocalStates: nothing is purged.
purgeLocalStatesNot(nextState, ast) == nextState

\* The scene purge: every key of LocalStates set to false in nextState.
purgeLocalStates(nextState, ast) ==
    [k \in DOMAIN nextState \cup DOMAIN ast.LocalStates |->
        IF k \in DOMAIN ast.LocalStates THEN FALSE ELSE nextState[k]]

\* The knot a choice leads to: the stitch name without its dot, else the
\* target knot, else the current knot when the choice changes state, else
\* "" (the choice is passed over).
targetKnotNameOf(choice, currentKnotName) ==
    LET named == IF choice.Stitch # << >> THEN Str[TrimPrefix(choice.Stitch, ".")]
                 ELSE choice.TargetKnot
    IN  IF named # "" THEN named
        ELSE IF Len(choice.StateChanges) > 0 THEN currentKnotName
        ELSE ""

\* Mutant of choicesOf: the choices of a knot marked END are left out.
choicesOfUnlessEnd(knot) == IF knot.IsEnd THEN << >> ELSE knot.Choices

\* The choices the loop ranges over: currentKnot.Choices.
choicesOf(knot) == knot.Choices

\* Mutant of choiceSkipped: no choice is passed over.
choiceSkippedNever(choice, state) == FALSE

\* Mutant of choiceSkipped: the test for the empty condition is left out.
choiceSkippedUnguarded(choice, state) ==
    ~evaluateCondition(choice.Condition, state)

\* The guard of `continue` at the head of the loop over the choices.
choiceSkipped(choice, state) ==
    choice.Condition # << >> /\ ~evaluateCondition(choice.Condition, state)

(***************************************************************************)
(* The scripts the model compiles                                          *)
(*                                                                         *)
(* A script text is represented by what parse makes of it: the Script      *)
(* (ast.go) it builds, or the error it reports.  The scripts declare the   *)
(* global state g, the flag state f and the local state l; the choices     *)
(* also name u, which no header declares.  There are three knots: index    *)
(* (no scene), a and b (b in scene "s1", a in scene "" or "s1").  A few    *)
(* more scripts have an anchor that names no knot, an anchor without state *)
(* changes, and the knot a|c beside the knot a; four have the knot index   *)
(* alone and declare no state or the local state l.                        *)
(***************************************************************************)

\* The longest list of choices the knot index is given.
MaxChoices == 2

\* "name == value" and "name != value" as parseChoice stores them.
Eq(name, value) == << name, " ", "==", " ", value >>
Neq(name, value) == << name, " ", "!=", " ", value >>
And(c1, c2) == c1 \o << " ", "&&", " " >> \o c2

\* "name = value" as parseChoice stores a state change.
Set(name, value) == << name, " ", "=", " ", value >>

\* A Choice (ast.go).
Choice(text, condition, stateChanges, targetKnot, stitch) ==
    [ Text |-> text, Condition |-> condition, StateChanges |-> stateChanges,
      TargetKnot |-> targetKnot, Stitch |-> stitch ]

\* A TextBlock (ast.go).
TextBlock(condition, content) == [ Condition |-> condition, Content |-> content ]

\* A Knot (ast.go).
Knot(name, scene, body, choices, isEnd) ==
    [ Name |-> name, Scene |-> scene, Body |-> body, Choices |-> choices,
      IsEnd |-> isEnd ]

\* The choices the knot index draws its list from.
IndexChoices ==
    { Choice("Look for a key.", Eq("g", "false"), << Set("g", "true") >>, "", << >>),
      Choice("Open the door.", Eq("g", "true"), << >>, "a", << >>),
      Choice("Do the thing.", << >>, << Set("f", "true") >>, "a", << >>),
      Choice("Pick up key.", << >>, << Set("l", "true") >>, "", << >>),
      Choice("Go on.", << >>, << >>, "b", << >>),
      Choice("Peek.", << >>, << Set("g", "true") >>, "", << ".", "a" >>) }

\* The lists of choices the knot a is given.
AChoiceLists ==
    { << >>,
      << Choice("Try to undo it.", << >>, << Set("f", "false"), Set("g", "false") >>,
                "index", << >>) >>,
      << Choice("Pick up key.", << >>, << Set("l", "true") >>, "", << >>),
         Choice("Leave room.", << >>, << >>, "b", << >>) >>,
      << Choice("Sneak.", And(Eq("l", "true"), Neq("f", "true")),
                << Set("l", "true") >>, "b", << >>),
         Choice("Mark.", << >>, << Set("u", "true") >>, "", << >>) >>,
      << Choice("Wait.", << >>, << >>, "", << >>),
         Choice("Fall.", Eq("g", "true"), << >>, "nowhere", << >>) >>,
      << Choice("Mumble.", << "g" >>, << >>, "b", << >>),
         Choice("Fumble.", Eq("f", "true"), << << "g" >> >>, "index", << >>) >> }

\* The lists of choices the knot b is given.
BChoiceLists ==
    { << >>,
      << Choice("Go back.", << >>, << >>, "a", << >>) >>,
      << Choice("Go home.", << >>, << Set("l", "true") >>, "index", << >>),
         Choice("Forget.", << >>, << Set("g", "false"), Set("f", "false") >>,
                "", << >>) >> }

\* The sequences over S of length at most n.
SeqsUpTo(S, n) == UNION { [1..k -> S] : k \in 0..n }

\* The Script parse builds from a text with the given knots.
ScriptOf(knots) ==
    [ Metadata     |-> [title |-> "My Story"],
      GlobalStates |-> [g |-> FALSE, f |-> TRUE],
      LocalStates  |-> [l |-> TRUE],
      Knots        |-> knots ]

IndexBody ==
    << TextBlock(Eq("g", "false"), "The room is dark."),
       TextBlock(Eq("g", "true"), "The lights are on."),
       TextBlock(<< >>, "Never shown.") >>

ABody == << TextBlock(Eq("l", "true"), "You hold the key."), TextBlock(<< >>, "A room.") >>

\* The body of b has no block without a condition, and one whose condition
\* is no comparison.
BBody ==
    << TextBlock(<< "g" >>, "Is it lit?"), TextBlock(Eq("g", "true"), "It is lit."),
       TextBlock(And(Eq("g", "false"), Eq("f", "true")), "It is done.") >>

\* Lists of choices of index with an anchor: .top names no knot, .b names
\* the knot b and comes without state changes.
AnchorChoiceLists ==
    { << Choice("Jump.", << >>, << >>, "", << ".", "top" >>) >>,
      << Choice("Pick up key.", << >>, << Set("l", "true") >>, "", << >>),
         Choice("Jump.", << >>, << Set("g", "true") >>, "", << ".", "top" >>) >>,
      << Choice("Hop.", << >>, << >>, "", << ".", "b" >>) >> }

\* Two choices of index that lead to the knots a and a|c, each with a change
\* of a name that no header declares, in both orders.
DelimiterChoiceLists ==
    LET toA == Choice("Left.", << >>, << Set("c|d", "false") >>, "a", << >>)
        toAC == Choice("Right.", << >>, << Set("d", "false") >>, "a|c", << >>)
    IN  { << toA, toAC >>, << toAC, toA >> }

\* Lists of choices of index that set a name to true and to false and stay
\* in the knot.
SmallChoiceLists ==
    { << Choice("Mark.", << >>, << Set("u", "true") >>, "", << >>),
         Choice("Unmark.", << >>, << Set("u", "false") >>, "", << >>) >>,
      << Choice("Pick up key.", << >>, << Set("l", "true") >>, "", << >>),
         Choice("Drop key.", << >>, << Set("l", "false") >>, "", << >>) >> }

\* The Scripts parse builds from the texts with the knot index alone, whose
\* headers declare nothing or the local state l.
SmallScripts ==
    { [ Metadata     |-> [title |-> "My Story"],
        GlobalStates |-> EmptyMap,
        LocalStates  |-> locals,
        Knots        |-> [n \in {"index"} |-> Knot("index", "", << >>, ic, FALSE)] ]
        : ic \in SmallChoiceLists, locals \in { EmptyMap, [l |-> TRUE] } }

\* The texts that parse: every choice of the lists of index, a and b and of
\* the scene of a, and the same without the knot index.
ParsedScripts ==
    { ScriptOf([n \in {"index", "a", "b"} |->
                  CASE n = "index" -> Knot("index", "", IndexBody, ic, FALSE)
                    [] n = "a"     -> Knot("a", sa, ABody, ac, FALSE)
                    [] n = "b"     -> Knot("b", "s1", BBody, bc, TRUE)])
        : ic \in SeqsUpTo(IndexChoices, MaxChoices), ac \in AChoiceLists,
          bc \in BChoiceLists, sa \in {"", "s1"} }
    \cup
    { ScriptOf([n \in {"index", "a", "b"} |->
                  CASE n = "index" -> Knot("index", "", IndexBody, ic, FALSE)
                    [] n = "a"     -> Knot("a", "", ABody, << >>, FALSE)
                    [] n = "b"     -> Knot("b", "s1", BBody, << >>, TRUE)])
        : ic \in AnchorChoiceLists }
    \cup
    { ScriptOf([n \in {"index", "a", "a|c"} |->
                  CASE n = "index" -> Knot("index", "", IndexBody, ic, FALSE)
                    [] n = "a"     -> Knot("a", "", ABody, << >>, FALSE)
                    [] n = "a|c"   -> Knot("a|c", "", << >>, << >>, TRUE)])
        : ic \in DelimiterChoiceLists }
    \cup
    { ScriptOf([n \in {"a"} |-> Knot("a", sa, ABody, ac, FALSE)])
        : ac \in AChoiceLists, sa \in {""} }
    \cup SmallScripts

\* The value parse returns with an error (a nil *Script).
NilScript == [ Metadata |-> << >>, GlobalStates |-> << >>, LocalStates |-> << >>,
               Knots |-> << >> ]

\* The inputs of Compile, each given by what parse returns for it: the
\* texts that parse, and two that parse rejects.
Inputs ==
    { [ ast |-> a, err |-> "" ] : a \in ParsedScripts }
    \cup
    { [ ast |-> NilScript, err |-> e ]
        : e \in { "found knot with empty name",
                  "failed to parse choice '*': choice appears to be empty" } }

(***************************************************************************)
(* Compile and buildGraph                                                  *)
(***************************************************************************)

\* A nil result; a result that is not nil is the one-element sequence of it.
Nil == << >>

\* A function that has not returned.
NotReturned == [ returned |-> FALSE, value |-> Nil, err |-> "" ]

\* (value, nil) and (nil, err).
Returned(value) == [ returned |-> TRUE, value |-> << value >>, err |-> "" ]
Failed(msg) == [ returned |-> TRUE, value |-> Nil, err |-> msg ]

\* The outcome of an invocation of Compile that has not ended.
NoOutcome == [ pc |-> "", out |-> NotReturned ]

ast == script.ast

\* The node a reference points to, and the contents of its state vector.
NodeAt(ref) == nodeHeap[ref]
StateAt(ref) == stateHeap[nodeHeap[ref].State]

\* Mutant of dequeue: the node taken stays in the queue.
dequeueNothing(q) == q

\* queue[1:] after queue[0] was taken.
dequeue(q) == Tail(q)

\* Mutant of enqueue: the node is put at the front of the queue.
enqueueFront(q, node) == << node >> \o q

\* queue = append(queue, node).
enqueue(q, node) == Append(q, node)

\* Mutant of register: the node is not put in the graph.
registerNothing(g, id, node) == g

\* graph.Graph[nodeID] = node.
register(g, id, node) == MapSet(g, id, node)

\* Mutant of markVisited: the node ID is not marked.
markVisitedNothing(v, id) == v

\* visited[nodeID] = true.
markVisited(v, id) == MapSet(v, id, TRUE)

\* Mutant of isVisited: the test is inverted.
isVisitedInverted(v, id) == ~MapGet(v, id)

\* Mutant of isVisited: no node counts as visited.
isVisitedNever(v, id) == FALSE

\* visited[nextNodeID].
isVisited(v, id) == MapGet(v, id)

\* encoding/json of a StoryEdge and of a StoryNode: omitempty drops an
\* empty stitch, and the keys of a map are written in sorted order, so the
\* text is determined by the map as a function.
marshalEdge(edge) ==
    IF edge.Stitch = ""
    THEN [ text |-> edge.Text, targetNodeId |-> edge.TargetNodeID ]
    ELSE [ text |-> edge.Text, targetNodeId |-> edge.TargetNodeID, stitch |-> edge.Stitch ]

marshalNode(node, heap) ==
    [ knotName |-> node.KnotName,
      scene    |-> node.Scene,
      state    |-> heap[node.State],
      content  |-> node.Content,
      edges    |-> [i \in 1..Len(node.Edges) |-> marshalEdge(node.Edges[i])],
      isEnd    |-> node.IsEnd ]

\* The output map of Compile, serialised.
marshalOutput(metadata, g, nodes, heap) ==
    [ metadata |-> metadata,
      graph    |-> [id \in DOMAIN g |-> marshalNode(nodes[g[id]], heap)] ]

Init ==
    /\ script \in Inputs
    /\ pc = "parse"
    /\ stateHeap = << >>
    /\ nodeHeap = << >>
    /\ graph = EmptyMap
    /\ queue = << >>
    /\ visited = EmptyMap
    /\ currentNode = 0
    /\ ci = 0
    /\ nextNode = 0
    /\ nextNodeID = ""
    /\ ret = NotReturned
    /\ out = NotReturned
    /\ registered = << >>
    /\ explored = << >>
    /\ run = 1
    /\ firstOut = NoOutcome
    /\ calls = << >>
    /\ results = << >>

\* Compile, step 1: parse the script; a parse error is returned wrapped.
Parse ==
    /\ pc = "parse"
    /\ IF script.err # ""
       THEN /\ out' = Failed("parsing error: " \o script.err)
            /\ pc' = "done"
       ELSE /\ pc' = "build"
            /\ out' = out
    /\ UNCHANGED << script, stateHeap, nodeHeap, graph, queue, visited, currentNode,
                    ci, nextNode, nextNodeID, ret, registered, explored, run, firstOut, calls, results >>

\* Mutant of BuildFails: the error is dropped and the graph built so far is
\* returned.
BuildFailsSilently(msg) ==
    /\ ret' = Returned("graph")
    /\ out' = out
    /\ pc' = "marshal"

\* Mutant of BuildFails: the graph built so far is returned with the error.
BuildFailsWithGraph(msg) ==
    /\ ret' = [ returned |-> TRUE, value |-> << "graph" >>, err |-> msg ]
    /\ out' = Failed("graph analysis error: " \o msg)
    /\ pc' = "done"

\* buildGraph returns (nil, err) and Compile returns the error wrapped.
BuildFails(msg) ==
    /\ ret' = Failed(msg)
    /\ out' = Failed("graph analysis error: " \o msg)
    /\ pc' = "done"

\* buildGraph up to its loop: the check for the knot index, the initial
\* state, the root node, its registration.
BuildStart ==
    /\ pc = "build"
    /\ IF "index" \notin DOMAIN ast.Knots
       THEN /\ BuildFails("script must contain a starting knot named 'index'")
            /\ UNCHANGED << stateHeap, nodeHeap, graph, queue, visited, registered >>
       ELSE LET initialState == Len(stateHeap) + 1
                rootNode == Len(nodeHeap) + 1
            IN  /\ stateHeap' = Append(stateHeap, initialStateOf(ast))
                /\ nodeHeap' = Append(nodeHeap,
                                      createNode("index", ast.Knots["index"],
                                                 initialState, stateHeap'))
                /\ \E nodeID \in nodeIDs(nodeHeap'[rootNode].KnotName,
                                         stateHeap'[nodeHeap'[rootNode].State]) :
                      /\ graph' = register(graph, nodeID, rootNode)
                      /\ visited' = markVisited(visited, nodeID)
                      /\ registered' = Append(registered, nodeID)
                /\ queue' = enqueue(queue, rootNode)
                /\ pc' = "loop"
                /\ UNCHANGED << ret, out >>
    /\ UNCHANGED << script, currentNode, ci, nextNode, nextNodeID, explored, run,
                    firstOut, calls, results >>

\* The head of `for len(queue) > 0`: take the first node of the queue, or
\* leave the loop and return the graph.
LoopHead ==
    /\ pc = "loop"
    /\ IF Len(queue) > 0
       THEN /\ currentNode' = Head(queue)
            /\ queue' = dequeue(queue)
            /\ explored' = Append(explored, Head(queue))
            /\ ci' = 1
            /\ pc' = "choice"
            /\ ret' = ret
       ELSE /\ ret' = Returned("graph")
            /\ pc' = "marshal"
            /\ UNCHANGED << currentNode, queue, explored, ci >>
    /\ UNCHANGED << script, stateHeap, nodeHeap, graph, visited, nextNode, nextNodeID,
                    out, registered, run, firstOut, calls, results >>

\* One iteration of the loop over currentKnot.Choices, up to the append of
\* the edge; the loop ends when the choices are used up.
ChoiceStep ==
    /\ pc = "choice"
    /\ LET currentKnot == ast.Knots[NodeAt(currentNode).KnotName]
       IN  IF ci > Len(choicesOf(currentKnot))
           THEN /\ pc' = "loop"
                /\ ci' = 0
                /\ UNCHANGED << stateHeap, nodeHeap, nextNode, nextNodeID, ret, out >>
           ELSE LET choice == choicesOf(currentKnot)[ci]
                IN  IF choiceSkipped(choice, StateAt(currentNode))
                    THEN /\ ci' = ci + 1
                         /\ UNCHANGED << pc, stateHeap, nodeHeap, nextNode, nextNodeID,
                                         ret, out >>
                    ELSE IF applyStateChangesPanics(choice)
                    THEN /\ pc' = "panic"
                         /\ UNCHANGED << ci, stateHeap, nodeHeap, nextNode, nextNodeID,
                                         ret, out >>
                    ELSE LET nextState == Len(stateHeap) + 1
                             applied == newNextState(stateHeap, NodeAt(currentNode).State,
                                                     choice, ast)
                             targetKnotName ==
                                 targetKnotNameOf(choice, NodeAt(currentNode).KnotName)
                         IN  IF targetKnotName = ""
                             THEN /\ stateHeap' = applied
                                  /\ ci' = ci + 1
                                  /\ UNCHANGED << pc, nodeHeap, nextNode, nextNodeID,
                                                  ret, out >>
                             ELSE IF targetKnotName \notin DOMAIN ast.Knots
                             THEN /\ stateHeap' = applied
                                  /\ BuildFails("choice leads to non-existent knot: '"
                                                \o targetKnotName \o "'")
                                  /\ UNCHANGED << ci, nodeHeap, nextNode, nextNodeID >>
                             ELSE LET targetKnot == ast.Knots[targetKnotName]
                                      node == createNode(targetKnotName, targetKnot,
                                                         nextState, stateHeap')
                                      edge(id) == [ Text |-> choice.Text,
                                                    TargetNodeID |-> id,
                                                    Stitch |-> Str[choice.Stitch] ]
                                  IN  /\ stateHeap' =
                                           IF sceneChanges(currentKnot, targetKnot)
                                           THEN [applied EXCEPT ![nextState] =
                                                    purgeLocalStates(@, ast)]
                                           ELSE applied
                                      /\ \E id \in nodeIDs(node.KnotName,
                                                           stateHeap'[node.State]) :
                                           /\ nodeHeap' =
                                                Append([nodeHeap EXCEPT
                                                          ![currentNode].Edges =
                                                              Append(@, edge(id))], node)
                                           /\ nextNodeID' = id
                                      /\ nextNode' = Len(nodeHeap) + 1
                                      /\ pc' = "register"
                                      /\ UNCHANGED << ci, ret, out >>
    /\ UNCHANGED << script, graph, queue, visited, currentNode, registered, explored,
                    run, firstOut, calls, results >>

\* The end of the iteration: a node ID not visited before is marked, its
\* node is put in the graph and in the queue.
Register ==
    /\ pc = "register"
    /\ IF ~isVisited(visited, nextNodeID)
       THEN /\ visited' = markVisited(visited, nextNodeID)
            /\ graph' = register(graph, nextNodeID, nextNode)
            /\ queue' = enqueue(queue, nextNode)
            /\ registered' = Append(registered, nextNodeID)
       ELSE UNCHANGED << visited, graph, queue, registered >>
    /\ ci' = ci + 1
    /\ nextNode' = 0
    /\ nextNodeID' = ""
    /\ pc' = "choice"
    /\ UNCHANGED << script, stateHeap, nodeHeap, currentNode, ret, out, explored, run,
                    firstOut, calls, results >>

\* Compile, step 3: serialise the metadata and the graph.
Marshal ==
    /\ pc = "marshal"
    /\ out' = Returned(marshalOutput(ast.Metadata, graph, nodeHeap, stateHeap))
    /\ pc' = "done"
    /\ UNCHANGED << script, stateHeap, nodeHeap, graph, queue, visited, currentNode,
                    ci, nextNode, nextNodeID, ret, registered, explored, run, firstOut, calls, results >>

\* Compile is invoked a second time on the same script, in a fresh process
\* state.
Restart ==
    /\ pc \in {"done", "panic"}
    /\ run = 1
    /\ firstOut' = [ pc |-> pc, out |-> out ]
    /\ run' = 2
    /\ pc' = "parse"
    /\ stateHeap' = << >>
    /\ nodeHeap' = << >>
    /\ graph' = EmptyMap
    /\ queue' = << >>
    /\ visited' = EmptyMap
    /\ currentNode' = 0
    /\ ci' = 0
    /\ nextNode' = 0
    /\ nextNodeID' = ""
    /\ ret' = NotReturned
    /\ out' = NotReturned
    /\ registered' = << >>
    /\ explored' = << >>
    /\ UNCHANGED << script, calls, results >>

Next == Parse \/ BuildStart \/ LoopHead \/ ChoiceStep \/ Register \/ Marshal

\* One invocation of Compile on any of the inputs.
Spec == Init /\ [][Next]_vars

\* The same, run to its end: the code is sequential and nothing suspends it.
FairSpec == Spec /\ WF_vars(Next)

NextTwice == Next \/ Restart

\* Two invocations of Compile on the same input.
SpecTwice == Init /\ [][NextTwice]_vars

\* The orders a list of choices can be written in, the given one left out.
Reordered(choices) ==
    { [i \in 1..Len(choices) |-> choices[p[i]]] : p \in Permutations(1..Len(choices)) }
        \ { choices }

\* The scripts that differ from s in the order of the choices of one knot:
\* parse appends the choices of a knot in the order of their lines.
PermutedScripts(s) ==
    UNION { { [s EXCEPT !.Knots[k].Choices = c] : c \in Reordered(s.Knots[k].Choices) }
              : k \in DOMAIN s.Knots }

\* Compile is invoked a second time, in a fresh process state, on the
\* script with the lines of the choices of one knot in another order.
RestartPermuted ==
    /\ pc \in {"done", "panic"}
    /\ run = 1
    /\ script.err = ""
    /\ \E permuted \in PermutedScripts(ast) : script' = [script EXCEPT !.ast = permuted]
    /\ firstOut' = [ pc |-> pc, out |-> out ]
    /\ run' = 2
    /\ pc' = "parse"
    /\ stateHeap' = << >>
    /\ nodeHeap' = << >>
    /\ graph' = EmptyMap
    /\ queue' = << >>
    /\ visited' = EmptyMap
    /\ currentNode' = 0
    /\ ci' = 0
    /\ nextNode' = 0
    /\ nextNodeID' = ""
    /\ ret' = NotReturned
    /\ out' = NotReturned
    /\ registered' = << >>
    /\ explored' = << >>
    /\ UNCHANGED << calls, results >>

NextPermuted == Next \/ RestartPermuted

\* An invocation of Compile on a script, then one on the script with the
\* choices of one knot permuted.
SpecPermuted == Init /\ [][NextPermuted]_vars

(***************************************************************************)
(* The engine's functions, called on their own                             *)
(*                                                                         *)
(* generateNodeID, evaluateCondition, applyStateChanges, createNode and    *)
(* the test at the head of the loop over the choices are pure: each is     *)
(* called here on arguments drawn from bounded sets, as a test in package  *)
(* bigif calls them.  calls is the list of calls, results what the calls   *)
(* made so far returned; the next call is calls[Len(results) + 1].         *)
(***************************************************************************)

\* Everything but calls and results.
engineVars ==
    << script, pc, stateHeap, nodeHeap, graph, queue, visited, currentNode, ci,
       nextNode, nextNodeID, ret, out, registered, explored, run, firstOut >>

\* The longest conjunction of comparisons a condition is given.
MaxAtoms == 2

\* The longest list of state changes a choice is given.
MaxChanges == 2

\* The comparisons: a name (u is in no state vector), an operator, a value.
Atoms == [ name : {"f", "g", "u"}, op : {"==", "!="}, value : {"true", "false"} ]

\* A comparison as a script writes it, without blanks or with them.
Comparison(atom, tight) ==
    IF tight THEN << atom.name, atom.op, atom.value >>
    ELSE << atom.name, " ", atom.op, " ", atom.value >>

\* The condition text of a conjunction of comparisons; the empty text for
\* none.
RECURSIVE ConditionText(_, _)
ConditionText(atoms, tight) ==
    IF atoms = << >> THEN << >>
    ELSE IF Len(atoms) = 1 THEN Comparison(atoms[1], tight)
    ELSE Comparison(Head(atoms), tight)
           \o (IF tight THEN << "&&" >> ELSE << " ", "&&", " " >>)
           \o ConditionText(Tail(atoms), tight)

\* The state vectors over the given sets of keys.
StatesOver(keySets) == UNION { [D -> BOOLEAN] : D \in keySets }

\* The script whose AST the calls are given: it declares g, f (a flag) and l
\* (local), like every script of the model.
CallScript == [ ast |-> ScriptOf(EmptyMap), err |-> "" ]

\* generateNodeID(knotName, state), twice.
GenerateNodeIDCalls ==
    LET one == [ fn : {"generateNodeID"},
                 knotName : {"a", "a|f", "room1"},
                 state : StatesOver({ {}, {"g"}, {"f|g"}, {"f", "g"}, {"f", "g", "l"},
                                      {"global_quest_active", "has_room_key"} }) ]
    IN  { << c1, c2 >> : c1 \in one, c2 \in one }

\* evaluateCondition(condition, state); atoms is what the condition says.
EvaluateConditionCalls ==
    { << [ fn |-> "evaluateCondition", atoms |-> a,
           condition |-> ConditionText(a, t), state |-> st ] >>
        : a \in SeqsUpTo(Atoms, MaxAtoms), t \in BOOLEAN,
          st \in StatesOver({ {}, {"g"}, {"f", "g"} }) }

\* The state changes a choice is given: name = value.
Changes == { Set(n, v) : n \in {"f", "g", "l", "u"}, v \in {"true", "false"} }

\* applyStateChanges(currentState, choice, ast).
ApplyStateChangesCalls ==
    { << [ fn |-> "applyStateChanges", currentState |-> st,
           choice |-> Choice("Do it.", << >>, ch, "", << >>) ] >>
        : ch \in SeqsUpTo(Changes, MaxChanges),
          st \in StatesOver({ {"f", "g", "l"} }) }

\* The test `choice.Condition != "" && !evaluateCondition(...)` on a choice
\* with no condition or one comparison.
ChoiceSkippedCalls ==
    { << [ fn |-> "choiceSkipped", atoms |-> a,
           choice |-> Choice("Go.", ConditionText(a, FALSE), << >>, "a", << >>),
           state |-> st ] >>
        : a \in SeqsUpTo(Atoms, 1), st \in StatesOver({ {}, {"f", "g"} }) }

\* createNode(knotName, knot, state) on a knot of two text blocks, the first
\* with no condition or one comparison.
CreateNodeCalls ==
    { << [ fn |-> "createNode", atoms |-> a, knotName |-> "a",
           knot |-> Knot("a", "", << TextBlock(ConditionText(a, FALSE), "First."),
                                     TextBlock(<< >>, "Fallback.") >>, << >>, FALSE),
           state |-> st ] >>
        : a \in SeqsUpTo(Atoms, 1), st \in StatesOver({ {}, {"f", "g"} }) }

InitCalls ==
    /\ script = CallScript
    /\ pc = "call"
    /\ stateHeap = << >>
    /\ nodeHeap = << >>
    /\ graph = EmptyMap
    /\ queue = << >>
    /\ visited = EmptyMap
    /\ currentNode = 0
    /\ ci = 0
    /\ nextNode = 0
    /\ nextNodeID = ""
    /\ ret = NotReturned
    /\ out = NotReturned
    /\ registered = << >>
    /\ explored = << >>
    /\ run = 1
    /\ firstOut = NoOutcome
    /\ \/ calls \in GenerateNodeIDCalls
       \/ calls \in EvaluateConditionCalls
       \/ calls \in ApplyStateChangesCalls
       \/ calls \in ChoiceSkippedCalls
       \/ calls \in CreateNodeCalls
    /\ results = << >>

\* The call to make next, when there is one of the function fn.
NextCallIs(fn) ==
    /\ pc = "call"
    /\ Len(results) < Len(calls)
    /\ calls[Len(results) + 1].fn = fn

CallGenerateNodeID ==
    /\ NextCallIs("generateNodeID")
    /\ LET call == calls[Len(results) + 1]
       IN  \E id \in nodeIDs(call.knotName, call.state) :
               results' = Append(results, id)
    /\ UNCHANGED << engineVars, calls >>

CallEvaluateCondition ==
    /\ NextCallIs("evaluateCondition")
    /\ LET call == calls[Len(results) + 1]
       IN  results' = Append(results, evaluateCondition(call.condition, call.state))
    /\ UNCHANGED << engineVars, calls >>

CallApplyStateChanges ==
    /\ NextCallIs("applyStateChanges")
    /\ LET call == calls[Len(results) + 1]
       IN  results' = Append(results,
                             applyStateChanges(call.currentState, call.choice, ast))
    /\ UNCHANGED << engineVars, calls >>

CallChoiceSkipped ==
    /\ NextCallIs("choiceSkipped")
    /\ LET call == calls[Len(results) + 1]
       IN  results' = Append(results, choiceSkipped(call.choice, call.state))
    /\ UNCHANGED << engineVars, calls >>

CallCreateNode ==
    /\ NextCallIs("createNode")
    /\ LET call == calls[Len(results) + 1]
       IN  results' = Append(results,
                             createNode(call.knotName, call.knot, 1, << call.state >>))
    /\ UNCHANGED << engineVars, calls >>

NextCalls ==
    \/ CallGenerateNodeID
    \/ CallEvaluateCondition
    \/ CallApplyStateChanges
    \/ CallChoiceSkipped
    \/ CallCreateNode

\* The engine's functions, each called on every argument of its set.
SpecCalls == InitCalls /\ [][NextCalls]_vars

(***************************************************************************)
(* What the claims speak of                                                *)
(***************************************************************************)

\* buildGraph has returned a graph and no error.
Succeeded == ret = Returned("graph")

\* The declared variables, by class.
Declared == DOMAIN ast.GlobalStates \cup DOMAIN ast.LocalStates
FlagClass == { v \in DOMAIN ast.GlobalStates : ast.GlobalStates[v] }
LocalClass == DOMAIN ast.LocalStates

\* The (unit, state) pair of a node.
PairOf(ref) == << NodeAt(ref).KnotName, StateAt(ref) >>

\* The edges of the registered nodes, each named by << source ID, index >>.
OutputEdges ==
    UNION { { << id, i >> : i \in 1..Len(NodeAt(graph[id]).Edges) } : id \in DOMAIN graph }

EdgeAt(e) == NodeAt(graph[e[1]]).Edges[e[2]]

\* The entry pair: unit index, every declared variable false.
EntryPair == << "index", [v \in Declared |-> FALSE] >>

\* The unit a choice leads to from unit: that of an anchor jump is the unit
\* itself ("a local-anchor jump does not change the active unit"), else the
\* explicit target, else the unit itself when the choice has mutations,
\* else none.
RefDestination(unit, c) ==
    IF c.Stitch # << >> THEN unit
    ELSE IF c.TargetKnot # "" THEN c.TargetKnot
    ELSE IF c.StateChanges # << >> THEN unit
    ELSE ""

\* A choice is taken from (unit, state) when it is enabled there and
\* resolves to a unit of the script.
RefTaken(unit, state, c) ==
    /\ c.Condition = << >> \/ evaluateCondition(c.Condition, state)
    /\ ~applyStateChangesPanics(c)
    /\ RefDestination(unit, c) \in DOMAIN ast.Knots

\* The transition rule: the mutations, then the scene purge.
RefStep(unit, state, c) ==
    LET dest == RefDestination(unit, c)
        mutated == applyStateChanges(state, c, ast)
    IN  << dest,
           IF ast.Knots[unit].Scene = ast.Knots[dest].Scene THEN mutated
           ELSE [v \in DOMAIN mutated |-> IF v \in LocalClass THEN FALSE ELSE mutated[v]] >>

RefSuccessors(p) ==
    LET choices == ast.Knots[p[1]].Choices
    IN  { RefStep(p[1], p[2], choices[i]) :
            i \in { j \in 1..Len(choices) : RefTaken(p[1], p[2], choices[j]) } }

\* The pairs some finite sequence of taken choices produces from the entry
\* pair.
RECURSIVE RefClosure(_)
RefClosure(S) ==
    LET T == S \cup UNION { RefSuccessors(p) : p \in S }
    IN  IF T = S THEN S ELSE RefClosure(T)

ReachablePairs == RefClosure({ EntryPair })

(***************************************************************************)
(* The claims                                                              *)
(***************************************************************************)

\* No choice of the script carries a local-anchor marker.
NoAnchors ==
    \A k \in DOMAIN ast.Knots :
        \A i \in 1..Len(ast.Knots[k].Choices) : ast.Knots[k].Choices[i].Stitch = << >>

\* C1 (reachability soundness): after a successful buildGraph every node of
\* the node mapping is a (unit, state) pair that some finite sequence of
\* enabled choices, each followed by the transition rule, produces from the
\* entry pair.
C1_Soundness ==
    Succeeded => \A id \in DOMAIN graph : PairOf(graph[id]) \in ReachablePairs

\* C1 holds of the scripts without anchor jumps: the nodes that break it are
\* those buildGraph makes for the knot an anchor names.
C1_SoundnessNoAnchors ==
    (Succeeded /\ NoAnchors) =>
        \A id \in DOMAIN graph : PairOf(graph[id]) \in ReachablePairs

\* A successful build, of a script without anchor jumps, whose graph has
\* three or more nodes and leaves out a pair of one of its units: a choice
\* to that unit was disabled somewhere.
C1_Witness ==
    /\ Succeeded
    /\ NoAnchors
    /\ Cardinality(DOMAIN graph) >= 3
    /\ \E id \in DOMAIN graph :
         LET choices == ast.Knots[NodeAt(graph[id]).KnotName].Choices
         IN  \E i \in 1..Len(choices) : choiceSkipped(choices[i], StateAt(graph[id]))
    /\ \E k \in DOMAIN ast.Knots, st \in [Declared -> BOOLEAN] :
         /\ \E id \in DOMAIN graph : NodeAt(graph[id]).KnotName = k
         /\ \A id \in DOMAIN graph : PairOf(graph[id]) # << k, st >>

\* C2 (reachability completeness): after a successful buildGraph every
\* reachable (unit, state) pair is the pair of exactly one key of the node
\* mapping.
C2_Completeness ==
    Succeeded =>
        \A p \in ReachablePairs :
            Cardinality({ id \in DOMAIN graph : PairOf(graph[id]) = p }) = 1

\* C2 holds of the scripts without anchor jumps: the pairs that are missing
\* are those an anchor jump leads to, within its own unit.
C2_CompletenessNoAnchors ==
    (Succeeded /\ NoAnchors) =>
        \A p \in ReachablePairs :
            Cardinality({ id \in DOMAIN graph : PairOf(graph[id]) = p }) = 1

\* A successful build, of a script without anchor jumps, with a pair that
\* two different edges lead to.
C2_Witness ==
    /\ Succeeded
    /\ NoAnchors
    /\ Cardinality(ReachablePairs) >= 4
    /\ \E e1, e2 \in OutputEdges :
         e1 # e2 /\ EdgeAt(e1).TargetNodeID = EdgeAt(e2).TargetNodeID

\* C3 (no dangling edges): in the graph a successful buildGraph returns, the
\* target of every edge of every node is a key of the node mapping.
C3_NoDanglingEdges ==
    Succeeded => \A e \in OutputEdges : EdgeAt(e).TargetNodeID \in DOMAIN graph

\* A successful build with an edge to a node other than its source.
C3_Witness ==
    /\ Succeeded
    /\ \E e \in OutputEdges :
         EdgeAt(e).TargetNodeID # e[1] /\ EdgeAt(e).TargetNodeID \in DOMAIN graph

\* C4 (flag monotonicity): for every flag v and every edge of the output
\* graph, v true in the source node's state implies v true in the target
\* node's state.
C4_FlagMonotonic ==
    Succeeded =>
        \A e \in OutputEdges : \A v \in FlagClass :
            LET target == EdgeAt(e).TargetNodeID
            IN  target \in DOMAIN graph =>
                  (MapGet(StateAt(graph[e[1]]), v) => MapGet(StateAt(graph[target]), v))

\* A successful build with an edge of a choice that sets the flag to false,
\* from a node where the flag is true.
C4_Witness ==
    /\ Succeeded
    /\ \E e \in OutputEdges :
         /\ EdgeAt(e).Text \in { "Try to undo it.", "Forget." }
         /\ StateAt(graph[e[1]])["f"]
         /\ StateAt(graph[EdgeAt(e).TargetNodeID])["f"]

\* C5 (local purge): for every edge of the output graph whose source and
\* target units have different scene labels, every local variable is false
\* in the target node's state.
C5_LocalPurge ==
    Succeeded =>
        \A e \in OutputEdges :
            LET target == EdgeAt(e).TargetNodeID
            IN  (/\ target \in DOMAIN graph
                 /\ ast.Knots[NodeAt(graph[e[1]]).KnotName].Scene
                      # ast.Knots[NodeAt(graph[target]).KnotName].Scene)
                => \A v \in LocalClass : MapGet(StateAt(graph[target]), v) = FALSE

\* A successful build with an edge that leaves the scene "s1" for the scene
\* "" by a choice that itself sets the local variable to true.
C5_Witness ==
    /\ Succeeded
    /\ \E e \in OutputEdges :
         /\ EdgeAt(e).Text = "Go home."
         /\ NodeAt(graph[e[1]]).Scene = "s1"
         /\ NodeAt(graph[EdgeAt(e).TargetNodeID]).Scene = ""
         /\ StateAt(graph[EdgeAt(e).TargetNodeID])["l"] = FALSE

\* C6 (determinism): two runs of Compile on the same input end alike: both
\* fail with the same error, or both return the same nodes (identity, state,
\* content, end flag) with the same edges in the same order.
C6_Determinism ==
    (run = 2 /\ pc \in {"done", "panic"}) => [ pc |-> pc, out |-> out ] = firstOut

\* The second run has ended and has returned a graph of three or more nodes
\* whose state vectors have two or more keys.
C6_Witness ==
    /\ run = 2
    /\ pc = "done"
    /\ out.err = ""
    /\ Cardinality(DOMAIN out.value[1].graph) >= 3
    /\ \A id \in DOMAIN out.value[1].graph :
         Cardinality(DOMAIN out.value[1].graph[id].state) >= 2

\* The size of the space the search moves in: a unit, and for each name a
\* value or none.
StateSpaceSize == Cardinality(DOMAIN ast.Knots) * 3 ^ Cardinality(Names)

\* The longest list of choices of a knot of the script.
LongestChoices ==
    IF DOMAIN ast.Knots = {} THEN 0
    ELSE LET lens == { Len(ast.Knots[k].Choices) : k \in DOMAIN ast.Knots }
         IN  CHOOSE n \in lens : \A m \in lens : m <= n

\* The variant of the search: the pairs not yet visited (twice) and the
\* nodes waiting in the queue, then the work left on the current node.
Variant ==
    LET waiting == 2 * (StateSpaceSize - Cardinality(DOMAIN visited)) + Len(queue)
        left == IF pc \in {"choice", "register"}
                THEN Len(ast.Knots[NodeAt(currentNode).KnotName].Choices) + 1 - ci
                ELSE 0
        inner == CASE pc = "parse"    -> 4
                   [] pc = "build"    -> 3
                   [] pc = "loop"     -> 2
                   [] pc = "choice"   -> 4 + 2 * left
                   [] pc = "register" -> 3 + 2 * left
                   [] pc = "marshal"  -> 1
                   [] OTHER           -> 0
    IN  waiting * (5 + 2 * LongestChoices) + inner

\* buildGraph is out of its loop: it has returned, or Compile has ended.
LoopLeft == ret.returned \/ pc \in {"done", "panic"}

\* C7 (termination): the loop of buildGraph comes to its end, whatever the
\* script (cycles and self-loops included): every step of the build lowers a
\* variant that is never negative, and the loop is eventually left.
C7_Termination ==
    /\ [](Variant >= 0)
    /\ [][Variant' < Variant]_vars
    /\ <>LoopLeft

\* A build that has succeeded on a script with a cycle: an edge leads back
\* to its own source and another to a node explored before its source.
C7_Witness ==
    /\ Succeeded
    /\ \E e \in OutputEdges : EdgeAt(e).TargetNodeID = e[1]
    /\ \E e \in OutputEdges :
         /\ EdgeAt(e).TargetNodeID = registered[1]
         /\ e[1] # registered[1]

AtMissingDestination ==
    /\ pc = "choice"
    /\ LET choices == ast.Knots[NodeAt(currentNode).KnotName].Choices
       IN  /\ ci <= Len(choices)
           /\ ~choiceSkipped(choices[ci], StateAt(currentNode))
           /\ ~applyStateChangesPanics(choices[ci])
           /\ targetKnotNameOf(choices[ci], NodeAt(currentNode).KnotName) # ""
           /\ targetKnotNameOf(choices[ci], NodeAt(currentNode).KnotName)
                \notin DOMAIN ast.Knots

\* C9 (non-existent destination): at such a choice the build aborts:
\* buildGraph returns an error and no graph, Compile an error and no output,
\* and nothing is returned later.
C9_MissingDestination ==
    /\ [][AtMissingDestination =>
            /\ pc' = "done"
            /\ ret'.returned /\ ret'.err # "" /\ ret'.value = Nil
            /\ out'.returned /\ out'.err # "" /\ out'.value = Nil]_vars
    /\ []((pc = "done" /\ ret.returned /\ ret.err # "")
            => (ret.value = Nil /\ out.value = Nil))

\* The build has aborted on a non-existent destination after it had
\* registered two or more nodes and recorded an edge.
C9_Witness ==
    /\ pc = "done"
    /\ ret = Failed("choice leads to non-existent knot: 'nowhere'")
    /\ Cardinality(DOMAIN graph) >= 2
    /\ OutputEdges # {}

\* C10 (entry node): once buildGraph has passed its start, the first node
\* registered is the node of the unit index whose state maps every declared
\* variable to false, and it is the first node explored; a graph that is
\* returned contains it.
C10_EntryNode ==
    (pc \in {"loop", "choice", "register", "marshal"} \/ Succeeded)
    => /\ registered # << >>
       /\ registered[1] \in DOMAIN graph
       /\ PairOf(graph[registered[1]]) = << "index", [v \in Declared |-> FALSE] >>
       /\ \A v \in Declared : v \in DOMAIN StateAt(graph[registered[1]])
       /\ explored # << >> => explored[1] = graph[registered[1]]
       /\ Succeeded => explored # << >>

\* A returned graph of three or more nodes whose entry node was explored
\* first.
C10_Witness ==
    /\ Succeeded
    /\ Len(registered) >= 3
    /\ Len(explored) >= 3
    /\ explored[1] = graph[registered[1]]
    /\ StateAt(explored[1]) = [v \in {"f", "g", "l"} |-> FALSE]

\* C11 (total state vectors): the state vector of every node buildGraph
\* makes has an entry for every declared variable (global, flag and local),
\* and no edge leads to a node whose vector lacks an entry of its source's.
C11_TotalStateVectors ==
    /\ \A n \in 1..Len(nodeHeap) : Declared \subseteq DOMAIN StateAt(n)
    /\ \A e \in OutputEdges :
         EdgeAt(e).TargetNodeID \in DOMAIN graph
         => DOMAIN StateAt(graph[e[1]]) \subseteq DOMAIN StateAt(graph[EdgeAt(e).TargetNodeID])

\* A returned graph with an edge that crosses into another scene from a node
\* where the local variable is true, and with a node reached by a choice
\* that changes the global variable only.
C11_Witness ==
    /\ Succeeded
    /\ \E e \in OutputEdges :
         /\ EdgeAt(e).Text = "Leave room."
         /\ StateAt(graph[e[1]])["l"]
         /\ NodeAt(graph[e[1]]).Scene # NodeAt(graph[EdgeAt(e).TargetNodeID]).Scene
         /\ DOMAIN StateAt(graph[EdgeAt(e).TargetNodeID]) = {"f", "g", "l"}
    /\ \E e \in OutputEdges : EdgeAt(e).Text = "Look for a key."

\* The calls made so far of the function fn, by their place in calls.
CallsMade(fn) == { i \in 1..Len(results) : calls[i].fn = fn }

\* C12 (canonical identity is a faithful key): two calls of generateNodeID
\* return the same identity if and only if their unit names are equal and
\* their state vectors are equal as mappings.
C12_FaithfulKey ==
    \A i, j \in CallsMade("generateNodeID") :
        (results[i] = results[j])
        <=> (calls[i].knotName = calls[j].knotName /\ calls[i].state = calls[j].state)

\* The names of a state vector in lexicographic order.
NamesInOrder(state) == SelectSeq(NameOrder, LAMBDA n : n \in DOMAIN state)

\* unit, '|', then name=value for each entry in lexicographic order of the
\* names, joined by ','.
RECURSIVE ItemsJoined(_, _)
ItemsJoined(names, state) ==
    IF names = << >> THEN ""
    ELSE Head(names) \o "=" \o (IF state[Head(names)] THEN "true" ELSE "false")
           \o (IF Tail(names) = << >> THEN "" ELSE ",")
           \o ItemsJoined(Tail(names), state)

ComparisonHolds(atom, state) ==
    LET actual == atom.name \in DOMAIN state /\ state[atom.name]
        expected == (atom.value = "true")
    IN  IF atom.op = "==" THEN actual = expected ELSE actual # expected

\* C14 (condition evaluation): for a condition that is a conjunction of one
\* or more comparisons name == b or name != b, evaluateCondition returns
\* true exactly when every comparison holds in the state vector, a name with
\* no entry in the vector being read as false.
C14_ConditionEvaluation ==
    \A i \in CallsMade("evaluateCondition") :
        calls[i].atoms # << >>
        => results[i] = \A k \in 1..Len(calls[i].atoms) :
                            ComparisonHolds(calls[i].atoms[k], calls[i].state)

\* evaluateCondition has returned true for g==true&&u!=true, written without
\* blanks, on a vector that has no entry for u.
C14_Witness ==
    /\ Len(results) = 1
    /\ calls[1].fn = "evaluateCondition"
    /\ calls[1].condition = << "g", "==", "true", "&&", "u", "!=", "true" >>
    /\ calls[1].state = [g |-> TRUE]
    /\ results[1] = TRUE

\* C15 as the claim has it (empty condition): the condition evaluator
\* returns true for the empty condition string, for every state vector.
C15_EmptyConditionTrue ==
    \A i \in CallsMade("evaluateCondition") :
        calls[i].condition = << >> => results[i] = TRUE

\* C15 as the code has it: evaluateCondition returns false for the empty
\* condition string, and its two callers test for the empty string before
\* they call it, so that a choice with the empty condition is never skipped
\* and a text block with the empty condition is always chosen when no block
\* before it is.
C15_EmptyConditionGuarded ==
    /\ \A i \in CallsMade("evaluateCondition") :
         calls[i].condition = << >> => results[i] = FALSE
    /\ \A i \in CallsMade("choiceSkipped") :
         calls[i].choice.Condition = << >> => results[i] = FALSE
    /\ \A i \in CallsMade("createNode") :
         calls[i].knot.Body[1].Condition = << >> => results[i].Content = "First."

\* The test at the head of the loop has let a choice with the empty
\* condition pass, on a vector of two entries.
C15_Witness ==
    /\ Len(results) = 1
    /\ calls[1].fn = "choiceSkipped"
    /\ calls[1].choice.Condition = << >>
    /\ calls[1].state = [f |-> FALSE, g |-> TRUE]
    /\ results[1] = FALSE

\* The name and the value a state change gives, as applyStateChanges reads
\* them.
ChangedName(change) == Str[TrimSpace[Split[change, "="][1]]]
ChangedValue(change) == Str[TrimSpace[Split[change, "="][2]]] = "true"

\* The places in a list of state changes that name n.
ChangesOf(changes, n) == { k \in 1..Len(changes) : ChangedName(changes[k]) = n }

\* C16 (flag rule inside one mutation list): for a flag, the result of
\* applyStateChanges has it true exactly when it was true in the input or
\* some mutation of the list sets it to true, whatever the order of the
\* mutations.
C16_FlagRule ==
    \A i \in CallsMade("applyStateChanges") : \A v \in FlagClass :
        LET changes == calls[i].choice.StateChanges
        IN  results[i][v] =
              ( \/ calls[i].currentState[v]
                \/ \E k \in ChangesOf(changes, v) : ChangedValue(changes[k]) )

\* applyStateChanges has returned the flag true for the list f = true,
\* f = false on a vector where the flag was false.
C16_Witness ==
    /\ Len(results) = 1
    /\ calls[1].fn = "applyStateChanges"
    /\ calls[1].choice.StateChanges = << Set("f", "true"), Set("f", "false") >>
    /\ calls[1].currentState["f"] = FALSE
    /\ results[1]["f"] = TRUE

\* C17 (overwrite rule): for a global or local variable the result of
\* applyStateChanges holds the value of the last mutation that names it,
\* true or false, and a variable that no mutation names keeps its input
\* value.
C17_OverwriteRule ==
    \A i \in CallsMade("applyStateChanges") :
        LET changes == calls[i].choice.StateChanges
        IN  /\ \A v \in Declared \ FlagClass :
                 ChangesOf(changes, v) # {}
                 => LET last == CHOOSE k \in ChangesOf(changes, v) :
                                    \A j \in ChangesOf(changes, v) : j <= k
                    IN  results[i][v] = ChangedValue(changes[last])
            /\ \A v \in DOMAIN calls[i].currentState :
                 ChangesOf(changes, v) = {}
                 => results[i][v] = calls[i].currentState[v]

\* applyStateChanges has returned g false and l true for the list
\* g = true, g = false on a vector where g was false and l true.
C17_Witness ==
    /\ Len(results) = 1
    /\ calls[1].fn = "applyStateChanges"
    /\ calls[1].choice.StateChanges = << Set("g", "true"), Set("g", "false") >>
    /\ calls[1].currentState = [f |-> FALSE, g |-> FALSE, l |-> TRUE]
    /\ results[1] = [f |-> FALSE, g |-> FALSE, l |-> TRUE]

\* C18 (copy-on-write): no step of the build changes a state vector that
\* exists, or the unit, scene, state, content or end flag of a node that
\* exists; the edge list of a node changes only by one edge appended to it,
\* and only while that node is the one being explored.
C18_CopyOnWrite ==
    [][ /\ \A i \in 1..Len(stateHeap) :
             i <= Len(stateHeap') /\ stateHeap'[i] = stateHeap[i]
        /\ \A n \in 1..Len(nodeHeap) :
             /\ n <= Len(nodeHeap')
             /\ [nodeHeap'[n] EXCEPT !.Edges = << >>] = [nodeHeap[n] EXCEPT !.Edges = << >>]
             /\ \/ nodeHeap'[n].Edges = nodeHeap[n].Edges
                \/ /\ n = currentNode
                   /\ pc = "choice"
                   /\ Len(nodeHeap'[n].Edges) = Len(nodeHeap[n].Edges) + 1
                   /\ SubSeq(nodeHeap'[n].Edges, 1, Len(nodeHeap[n].Edges))
                        = nodeHeap[n].Edges ]_vars

\* A returned graph with a node, the local variable true in its state, that
\* has two edges to nodes whose states differ from its own, one by a
\* mutation and one by the scene purge.
C18_Witness ==
    /\ Succeeded
    /\ \E id \in DOMAIN graph :
         LET node == NodeAt(graph[id])
         IN  /\ Len(node.Edges) = 2
             /\ MapGet(StateAt(graph[id]), "l")
             /\ \A i \in 1..2 :
                  StateAt(graph[node.Edges[i].TargetNodeID]) # StateAt(graph[id])
             /\ \E i \in 1..2 :
                  /\ NodeAt(graph[node.Edges[i].TargetNodeID]).Scene # node.Scene
                  /\ ~MapGet(StateAt(graph[node.Edges[i].TargetNodeID]), "l")

\* The value the last change of a list that names n gives it.
LastValue(changes, n) ==
    LET last == CHOOSE k \in ChangesOf(changes, n) :
                    \A j \in ChangesOf(changes, n) : j <= k
    IN  ChangedValue(changes[last])

\* The loop is at a choice that is enabled in the state of the node being
\* explored, leads to a knot of the script, and has a mutation of a name
\* that no header declares.
AtUndeclaredMutation ==
    /\ pc = "choice"
    /\ LET choices == ast.Knots[NodeAt(currentNode).KnotName].Choices
       IN  /\ ci <= Len(choices)
           /\ ~choiceSkipped(choices[ci], StateAt(currentNode))
           /\ ~applyStateChangesPanics(choices[ci])
           /\ targetKnotNameOf(choices[ci], NodeAt(currentNode).KnotName)
                \in DOMAIN ast.Knots
           /\ \E k \in 1..Len(choices[ci].StateChanges) :
                ChangedName(choices[ci].StateChanges[k]) \notin Declared

\* C19 (permissive mutation): at such a choice nothing is rejected: the
\* build goes on to register the successor, nothing is returned, and the
\* successor's state vector has an entry for the undeclared name, with the
\* value of its (last) mutation.
C19_PermissiveMutation ==
    [][ AtUndeclaredMutation =>
          LET changes ==
                  ast.Knots[NodeAt(currentNode).KnotName].Choices[ci].StateChanges
              undeclared ==
                  { ChangedName(changes[k]) : k \in 1..Len(changes) } \ Declared
          IN  /\ pc' = "register"
              /\ ret' = NotReturned /\ out' = NotReturned
              /\ \A n \in undeclared :
                   /\ n \in DOMAIN stateHeap'[nodeHeap'[nextNode'].State]
                   /\ stateHeap'[nodeHeap'[nextNode'].State][n] = LastValue(changes, n) ]_vars

\* A returned graph with a node whose vector has the undeclared u, true, at
\* the end of an edge from a node whose vector has no entry for u.
C19_Witness ==
    /\ Succeeded
    /\ \E e \in OutputEdges :
         /\ EdgeAt(e).Text = "Mark."
         /\ "u" \notin DOMAIN StateAt(graph[e[1]])
         /\ "u" \notin Declared
         /\ StateAt(graph[EdgeAt(e).TargetNodeID])["u"] = TRUE

\* C20 (anchor jump keeps the unit): for every edge that carries a
\* local-anchor marker, the unit of the target node is the unit of the
\* source node.
C20_AnchorKeepsUnit ==
    \A e \in OutputEdges :
        (EdgeAt(e).Stitch # "" /\ EdgeAt(e).TargetNodeID \in DOMAIN graph)
        => NodeAt(graph[EdgeAt(e).TargetNodeID]).KnotName = NodeAt(graph[e[1]]).KnotName

\* The places of the text blocks of a body that match a state: the
\* condition is empty or evaluates true.
MatchingBlocks(body, state) ==
    { i \in 1..Len(body) :
        body[i].Condition = << >> \/ evaluateCondition(body[i].Condition, state) }

\* C21 (content selection): the content of every node is the content of the
\* first text block of its unit, in declared order, that matches the node's
\* state, and is empty when no block matches; the node is made all the same.
C21_ContentSelection ==
    \A n \in 1..Len(nodeHeap) :
        LET body == ast.Knots[NodeAt(n).KnotName].Body
            matching == MatchingBlocks(body, StateAt(n))
        IN  IF matching = {} THEN NodeAt(n).Content = ""
            ELSE \E i \in matching :
                    /\ \A j \in matching : i <= j
                    /\ NodeAt(n).Content = body[i].Content

\* A returned graph with a node of index where the second block is chosen
\* though the third matches too, and a node of b, registered, where no
\* block matches.
C21_Witness ==
    /\ Succeeded
    /\ \E id \in DOMAIN graph :
         /\ NodeAt(graph[id]).KnotName = "index"
         /\ NodeAt(graph[id]).Content = "The lights are on."
         /\ MatchingBlocks(IndexBody, StateAt(graph[id])) = {2, 3}
    /\ \E id \in DOMAIN graph :
         /\ NodeAt(graph[id]).KnotName = "b"
         /\ Len(ast.Knots["b"].Body) = 3
         /\ MatchingBlocks(ast.Knots["b"].Body, StateAt(graph[id])) = {}
         /\ NodeAt(graph[id]).Content = ""

\* A choice of the script has a state change that is malformed: it has no
\* '=' sign.
HasMalformedMutation ==
    \E k \in DOMAIN ast.Knots : \E i \in 1..Len(ast.Knots[k].Choices) :
        applyStateChangesPanics(ast.Knots[k].Choices[i])

\* C22 (malformed mutation is a reported failure): compiling a script in
\* which a choice has a malformed mutation ends with a returned error and no
\* graph; it does not crash and does not yield a graph.
C22_MalformedMutationReported ==
    (script.err = "" /\ HasMalformedMutation /\ pc \in {"done", "panic"})
    => (pc = "done" /\ out.returned /\ out.err # "" /\ out.value = Nil)

\* A condition is malformed: one of its conjuncts holds neither '==' nor
\* '!='.
MalformedCondition(condition) ==
    /\ condition # << >>
    /\ \E part \in { TrimSpace[Split[condition, "&&"][i]] :
                       i \in 1..Len(Split[condition, "&&"]) } :
          ~Contains(part, "==") /\ ~Contains(part, "!=")

\* A choice or a text block of the script has a malformed condition.
HasMalformedCondition ==
    \E k \in DOMAIN ast.Knots :
        \/ \E i \in 1..Len(ast.Knots[k].Choices) :
              MalformedCondition(ast.Knots[k].Choices[i].Condition)
        \/ \E i \in 1..Len(ast.Knots[k].Body) :
              MalformedCondition(ast.Knots[k].Body[i].Condition)

\* C23 as the claim has it (malformed condition is a reported failure):
\* compiling a script in which a choice or a text block has a malformed
\* condition ends with an error and no graph.
C23_MalformedConditionReported ==
    (script.err = "" /\ HasMalformedCondition /\ pc \in {"done", "panic"})
    => (pc = "done" /\ out.returned /\ out.err # "" /\ out.value = Nil)

\* The loop is at a choice whose condition is malformed.
AtMalformedCondition ==
    /\ pc = "choice"
    /\ LET choices == ast.Knots[NodeAt(currentNode).KnotName].Choices
       IN  ci <= Len(choices) /\ MalformedCondition(choices[ci].Condition)

\* C23 as the code has it: a malformed condition is not reported, it reads
\* as false: the choice that has it is passed over, in every state, with no
\* edge, no node and no error, and the text block that has it is never the
\* one chosen.
C23_MalformedConditionFalse ==
    /\ [][AtMalformedCondition =>
            /\ pc' = "choice" /\ ci' = ci + 1
            /\ UNCHANGED << stateHeap, nodeHeap, graph, queue, visited, ret, out >>]_vars
    /\ [](\A n \in 1..Len(nodeHeap) :
            LET body == ast.Knots[NodeAt(n).KnotName].Body
            IN  \A i \in 1..Len(body) :
                    MalformedCondition(body[i].Condition)
                    => NodeAt(n).Content # body[i].Content)

\* A graph has been returned for a script where the knot a has the choice
\* Mumble., whose condition is the bare name g: two nodes of a and one of b
\* are in it, the node of b with no content, and no edge is of that choice.
C23_Witness ==
    /\ Succeeded
    /\ "a" \in DOMAIN ast.Knots
    /\ Len(ast.Knots["a"].Choices) = 2
    /\ ast.Knots["a"].Choices[1].Text = "Mumble."
    /\ MalformedCondition(ast.Knots["a"].Choices[1].Condition)
    /\ Cardinality({ id \in DOMAIN graph : NodeAt(graph[id]).KnotName = "a" }) >= 2
    /\ \E id \in DOMAIN graph :
         NodeAt(graph[id]).KnotName = "b" /\ NodeAt(graph[id]).Content = ""
    /\ \A e \in OutputEdges : EdgeAt(e).Text # "Mumble."


\* A choice is enabled in a state when its condition is empty or true there.
EnabledIn(c, state) == c.Condition = << >> \/ evaluateCondition(c.Condition, state)

\* A choice resolves to a destination when it carries an anchor, a target
\* or at least one mutation.
Resolves(c) == c.Stitch # << >> \/ c.TargetKnot # "" \/ c.StateChanges # << >>

\* The choices of a unit that yield an edge from a state, in declared order.
EdgeChoices(unit, state) ==
    SelectSeq(ast.Knots[unit].Choices, LAMBDA c : EnabledIn(c, state) /\ Resolves(c))

\* C24 (edge list of a node): after a successful build the edges of every
\* node are, in the declared order of the choices of its unit, one edge per
\* choice that is enabled in the state of the node and resolves to a
\* destination, each with the label of its choice; a choice whose condition
\* is false there has no edge, a choice whose destination was visited
\* before has one.
C24_EdgeList ==
    Succeeded =>
        \A id \in DOMAIN graph :
            LET node == NodeAt(graph[id])
                kept == EdgeChoices(node.KnotName, StateAt(graph[id]))
            IN  /\ Len(node.Edges) = Len(kept)
                /\ \A i \in 1..Len(kept) : node.Edges[i].Text = kept[i].Text

\* A successful build with a node that has an edge although another choice
\* of its unit is not enabled in its state, and a node with an edge to
\* itself, which was visited when the edge was made.
C24_Witness ==
    /\ Succeeded
    /\ \E id \in DOMAIN graph :
         LET node == NodeAt(graph[id])
             choices == ast.Knots[node.KnotName].Choices
         IN  /\ Len(node.Edges) >= 1
             /\ \E i \in 1..Len(choices) : ~EnabledIn(choices[i], StateAt(graph[id]))
    /\ \E e \in OutputEdges : EdgeAt(e).TargetNodeID = e[1]


\* The destination unit the resolution rule gives a choice taken in unit:
\* the explicit target, else the unit itself when the choice has a mutation,
\* else none.
RuleDestination(c, unit) ==
    IF c.TargetKnot # "" THEN c.TargetKnot
    ELSE IF c.StateChanges # << >> THEN unit
    ELSE ""

\* The enabled choices of a unit that the resolution rule gives a
\* destination, in declared order.
RuleChoices(unit, state) ==
    SelectSeq(ast.Knots[unit].Choices,
              LAMBDA c : EnabledIn(c, state) /\ RuleDestination(c, unit) # "")

\* C25 (destination resolution): the node made for an enabled choice is of
\* the explicit target of the choice, else, when the choice has a mutation,
\* of the unit of the node being explored; a choice with neither has no
\* edge and no node, so that after a successful build the edges of a node
\* are those of its enabled choices that the rule gives a destination.
C25_DestinationResolution ==
    /\ pc = "register" =>
         LET unit == NodeAt(currentNode).KnotName
         IN  NodeAt(nextNode).KnotName = RuleDestination(ast.Knots[unit].Choices[ci], unit)
    /\ Succeeded =>
         \A id \in DOMAIN graph :
             LET node == NodeAt(graph[id])
                 kept == RuleChoices(node.KnotName, StateAt(graph[id]))
             IN  /\ Len(node.Edges) = Len(kept)
                 /\ \A i \in 1..Len(kept) : node.Edges[i].Text = kept[i].Text

\* C25 without anchors: in a script whose choices carry no local-anchor
\* marker the resolution rule is the one of C25.
C25_DestinationResolutionNoAnchors == NoAnchors => C25_DestinationResolution

\* A successful build of a script without anchors with an edge to the
\* explicit target, an edge of a choice with a mutation and no target back
\* to a node of the same unit, and a choice with neither that is enabled
\* and has no edge.
C25_Witness ==
    /\ Succeeded
    /\ NoAnchors
    /\ \E e \in OutputEdges :
         /\ EdgeAt(e).Text = "Do the thing."
         /\ NodeAt(graph[EdgeAt(e).TargetNodeID]).KnotName = "a"
    /\ \E e \in OutputEdges :
         /\ EdgeAt(e).Text = "Pick up key."
         /\ EdgeAt(e).TargetNodeID # e[1]
         /\ NodeAt(graph[EdgeAt(e).TargetNodeID]).KnotName = NodeAt(graph[e[1]]).KnotName
    /\ \E id \in DOMAIN graph :
         LET node == NodeAt(graph[id])
             choices == ast.Knots[node.KnotName].Choices
         IN  /\ \E i \in 1..Len(choices) : choices[i].Text = "Wait."
             /\ \A i \in 1..Len(node.Edges) : node.Edges[i].Text # "Wait."


\* After a successful build every edge has the marker of the choice that
\* produced it as its tag, and no tag when that choice has no marker; the
\* nodes of the output have no tag.
TagsOfOutput ==
    /\ Succeeded =>
         \A id \in DOMAIN graph :
             LET node == NodeAt(graph[id])
                 kept == EdgeChoices(node.KnotName, StateAt(graph[id]))
             IN  /\ Len(node.Edges) = Len(kept)
                 /\ \A i \in 1..Len(kept) : node.Edges[i].Stitch = Str[kept[i].Stitch]
    /\ out.value # Nil =>
         \A id \in DOMAIN out.value[1].graph :
             LET node == out.value[1].graph[id]
             IN  /\ "stitch" \notin DOMAIN node
                 /\ \A i \in DOMAIN node.edges :
                      "stitch" \in DOMAIN node.edges[i] <=> NodeAt(graph[id]).Edges[i].Stitch # ""

\* The loop is at a choice that carries a local-anchor marker and is enabled
\* in the state of the node being explored.
AtEnabledAnchor ==
    /\ pc = "choice"
    /\ LET choices == ast.Knots[NodeAt(currentNode).KnotName].Choices
       IN  /\ ci <= Len(choices)
           /\ choices[ci].Stitch # << >>
           /\ EnabledIn(choices[ci], StateAt(currentNode))

\* C26 (anchor tag on edges): an edge of the output carries an anchor tag
\* if and only if the choice that produced it carries a local-anchor
\* marker, and the tag is that marker; the nodes carry no tag; and every
\* enabled choice with a marker yields such an edge: the step taken at it
\* appends an edge with its marker to the node being explored.
C26_AnchorTag ==
    /\ []TagsOfOutput
    /\ [][AtEnabledAnchor =>
            LET choice == ast.Knots[NodeAt(currentNode).KnotName].Choices[ci]
                before == NodeAt(currentNode).Edges
                after == nodeHeap'[currentNode].Edges
            IN  /\ Len(after) = Len(before) + 1
                /\ after[Len(after)].Text = choice.Text
                /\ after[Len(after)].Stitch = Str[choice.Stitch]]_vars

\* C26 for the graphs that are returned: the tags of the edges of a
\* returned graph are the markers of the choices, and its nodes carry none.
C26_AnchorTagOfOutput == TagsOfOutput

\* A graph was returned that has an edge with the tag ".a" next to an edge
\* without a tag.
C26_Witness ==
    /\ pc = "done"
    /\ out.value # Nil
    /\ \E id \in DOMAIN out.value[1].graph :
         LET edges == out.value[1].graph[id].edges
         IN  \E i, j \in DOMAIN edges :
                /\ "stitch" \in DOMAIN edges[i] /\ edges[i].stitch = ".a"
                /\ "stitch" \notin DOMAIN edges[j]


\* C27 (anchor jump never purges): when the edge of a choice with a
\* local-anchor marker has been made, every local variable has in the state
\* of the target node the value the mutations of the choice give it from
\* the state of the source node: that of the last mutation that names it,
\* else its value in the source state.
C27_AnchorNeverPurges ==
    pc = "register" =>
        LET choice == ast.Knots[NodeAt(currentNode).KnotName].Choices[ci]
        IN  choice.Stitch # << >> =>
                \A v \in LocalClass :
                    StateAt(nextNode)[v] =
                        IF ChangesOf(choice.StateChanges, v) = {}
                        THEN StateAt(currentNode)[v]
                        ELSE LastValue(choice.StateChanges, v)

\* C27 where the knot the anchor names has the scene of the source: there
\* the local variables are as the mutations leave them.
C27_AnchorInSceneKeeps ==
    (pc = "register" /\ NodeAt(nextNode).Scene = NodeAt(currentNode).Scene)
        => C27_AnchorNeverPurges


\* The nodes that were put in the queue, in the order they were put there:
\* those taken from it, then those still in it.
Enqueued == explored \o queue

\* The loop is at the end of an iteration whose node ID was visited before.
AtVisitedAgain ==
    pc = "register" /\ nextNodeID \in DOMAIN visited /\ visited[nextNodeID]

\* C28 (explore once): no identity is registered twice; the nodes put in the
\* queue are the registered nodes, one for one, so that an identity is put
\* in the queue once and taken from it at most once; a registered node is
\* never replaced, and reaching a visited identity again changes neither the
\* node mapping nor the queue.
C28_ExploreOnce ==
    /\ [](/\ \A j, k \in 1..Len(registered) : registered[j] = registered[k] => j = k
          /\ DOMAIN graph = { registered[k] : k \in 1..Len(registered) }
          /\ Len(Enqueued) = Len(registered)
          /\ \A k \in 1..Len(registered) : Enqueued[k] = graph[registered[k]])
    /\ [][/\ \A id \in DOMAIN graph : id \in DOMAIN graph' /\ graph'[id] = graph[id]
          /\ AtVisitedAgain => UNCHANGED << graph, queue, visited, registered >>]_vars

\* A successful build of three or more nodes that reached visited
\* identities again: it has more edges than a tree over its nodes, and every
\* node was taken from the queue.
C28_Witness ==
    /\ Succeeded
    /\ Len(registered) >= 3
    /\ Cardinality(OutputEdges) > Len(registered)
    /\ Len(explored) = Len(registered)


\* The identities the edges of the nodes with the identities in S lead to.
TargetsOf(S) ==
    UNION { { NodeAt(graph[id]).Edges[i].TargetNodeID :
                i \in 1..Len(NodeAt(graph[id]).Edges) } : id \in S }

\* The shortest edge distance of every identity the edges lead to from the
\* identities of frontier, which are at distance d, those in seen left out.
RECURSIVE Distances(_, _, _)
Distances(seen, frontier, d) ==
    IF frontier = {} THEN << >>
    ELSE LET next == (TargetsOf(frontier) \cap DOMAIN graph) \ seen
         IN  [id \in frontier |-> d] @@ Distances(seen \cup next, next, d + 1)

\* The shortest edge distance from the entry node of every node of the
\* graph.
DistanceFromEntry == Distances({ registered[1] }, { registered[1] }, 0)

\* The identity a node is registered under.
IdentityOf(ref) == CHOOSE id \in DOMAIN graph : graph[id] = ref

\* C29 (breadth-first order): after a successful build the nodes were
\* explored in the order they were put in the queue, and of two nodes the
\* one explored first is at no greater shortest edge distance from the
\* entry node; within a node the choices are processed in declared order:
\* the place in the list of choices goes up by one, from 1 until the list
\* is used up.
C29_BreadthFirst ==
    /\ [](Succeeded =>
            \E dist \in { DistanceFromEntry } :
                /\ DOMAIN dist = DOMAIN graph
                /\ \A j, k \in 1..Len(explored) :
                     /\ IdentityOf(explored[j]) = registered[j]
                     /\ j < k => dist[IdentityOf(explored[j])] <= dist[IdentityOf(explored[k])])
    /\ [][ci' # ci =>
            \/ ci = 0 /\ ci' = 1
            \/ ci' = ci + 1 /\ ci <= Len(ast.Knots[NodeAt(currentNode).KnotName].Choices)
            \/ ci' = 0 /\ ci > Len(ast.Knots[NodeAt(currentNode).KnotName].Choices)]_vars

\* A successful build with two nodes at distance 1 and a node at distance
\* 2 or more, in which a node at distance 1 was found before, and explored
\* before, a node at distance 2 that an earlier node at distance 1 leads to.
C29_Witness ==
    /\ Succeeded
    /\ \E dist \in { DistanceFromEntry } :
         /\ Cardinality({ id \in DOMAIN dist : dist[id] = 1 }) >= 2
         /\ \E id \in DOMAIN dist : dist[id] >= 2
         /\ \E j, k \in 1..Len(explored) :
              /\ j < k
              /\ dist[registered[j]] = 1 /\ dist[registered[k]] = 1
              /\ \E t \in TargetsOf({ registered[j] }) : dist[t] = 2


\* The nodes of an outcome of Compile: for each identity the unit, the
\* state and the content of its node; none when no graph was returned.
MembersOf(outcome) ==
    IF outcome.out.value = Nil THEN << >>
    ELSE LET g == outcome.out.value[1].graph
         IN  [id \in DOMAIN g |-> [ knotName |-> g[id].knotName, state |-> g[id].state,
                                    content |-> g[id].content ]]

\* An outcome of Compile is a success when it returned and gave no error.
SucceededIn(outcome) == outcome.pc = "done" /\ outcome.out.err = ""

\* C30 (node membership is order-independent): the build of a script and
\* the build of the script with the choices of one unit permuted both
\* succeed or both fail, and their graphs have the same identities, each
\* with the same state and content.
C30_OrderIndependentMembership ==
    (run = 2 /\ pc \in {"done", "panic"}) =>
        LET second == [ pc |-> pc, out |-> out ]
        IN  /\ SucceededIn(second) <=> SucceededIn(firstOut)
            /\ MembersOf(second) = MembersOf(firstOut)

\* C30 for the scripts in which no name of a unit or of a variable holds a
\* separator of the identities.
C30_OrderIndependentPlainNames ==
    (DOMAIN ast.Knots \subseteq {"index", "a", "b"}) => C30_OrderIndependentMembership

\* Both builds have returned graphs of three or more nodes, and the edges
\* of a node are in another order in the second.
C30_Witness ==
    /\ run = 2
    /\ pc = "done"
    /\ SucceededIn(firstOut)
    /\ out.err = ""
    /\ Cardinality(DOMAIN out.value[1].graph) >= 3
    /\ \E id \in DOMAIN out.value[1].graph :
         /\ id \in DOMAIN firstOut.out.value[1].graph
         /\ out.value[1].graph[id].edges # firstOut.out.value[1].graph[id].edges


\* C31 as stated (registration precedes the edge): in every state of the
\* build every edge target of every registered node is a key of the node
\* mapping.
C31_RegisteredBeforeEdge ==
    \A e \in OutputEdges : EdgeAt(e).TargetNodeID \in DOMAIN graph

\* The edges of the registered nodes that lead to no key of the node
\* mapping.
DanglingEdges == { e \in OutputEdges : EdgeAt(e).TargetNodeID \notin DOMAIN graph }

\* C31 (the edge precedes the registration): the edge is added to the edge
\* list of the source node before its target is registered, and the target
\* is registered in the same iteration: the only edge that may lead to no
\* key of the node mapping is the last edge of the node being explored,
\* while the loop is between the append and the test of visited, and the
\* next step makes its target a key; in every other state every edge
\* target of every registered node is a key of the node mapping.
C31_EdgeThenRegistration ==
    /\ [](IF pc = "register"
          THEN \A e \in DanglingEdges :
                  /\ graph[e[1]] = currentNode
                  /\ e[2] = Len(NodeAt(currentNode).Edges)
                  /\ EdgeAt(e).TargetNodeID = nextNodeID
          ELSE DanglingEdges = {})
    /\ [][pc = "register" => nextNodeID \in DOMAIN graph' /\ DanglingEdges' = {}]_vars

\* The loop is between the append of an edge and the registration of its
\* target: the last edge of the node being explored, which is registered,
\* leads to an identity that is no key of the node mapping yet.
C31_Witness ==
    /\ pc = "register"
    /\ nextNodeID \notin DOMAIN graph
    /\ \E id \in DOMAIN graph :
         /\ graph[id] = currentNode
         /\ Len(NodeAt(currentNode).Edges) >= 2
         /\ NodeAt(currentNode).Edges[Len(NodeAt(currentNode).Edges)].TargetNodeID
              = nextNodeID


\* The names the mutations of the script give a value, and those of them
\* that no header declares.
MutatedNames ==
    UNION { UNION { { ChangedName(ast.Knots[k].Choices[i].StateChanges[j]) :
                        j \in 1..Len(ast.Knots[k].Choices[i].StateChanges) } :
                    i \in 1..Len(ast.Knots[k].Choices) } : k \in DOMAIN ast.Knots }

UndeclaredNames == MutatedNames \ Declared

\* C32 as stated (size bound): the node mapping has at most (number of
\* units) times 2 to the power (number of declared variables) nodes.
C32_SizeBound ==
    script.err = "" =>
        Cardinality(DOMAIN graph) <= Cardinality(DOMAIN ast.Knots) * 2 ^ Cardinality(Declared)

\* C32 (size bound with undeclared names): a declared variable is in every
\* state vector, true or false; a name that only mutations introduce is
\* absent, true or false.  The node mapping has at most (number of units)
\* times 2 to the power (number of declared variables) times 3 to the power
\* (number of undeclared names the mutations name) nodes, which is the
\* stated bound when the mutations name declared variables only.
C32_SizeBoundUndeclared ==
    script.err = "" =>
        Cardinality(DOMAIN graph) <=
            Cardinality(DOMAIN ast.Knots) * 2 ^ Cardinality(Declared)
                * 3 ^ Cardinality(UndeclaredNames)

\* A successful build of a script whose mutations name an undeclared name:
\* the graph has more nodes than units times 2 to the power of the declared
\* variables, and as many as the bound with the undeclared names allows.
C32_Witness ==
    /\ Succeeded
    /\ UndeclaredNames # {}
    /\ Cardinality(DOMAIN graph) > Cardinality(DOMAIN ast.Knots) * 2 ^ Cardinality(Declared)
    /\ Cardinality(DOMAIN graph) =
         Cardinality(DOMAIN ast.Knots) * 2 ^ Cardinality(Declared)
             * 3 ^ Cardinality(UndeclaredNames)


\* The value the mutations of a choice give the name v from a state: a flag
\* is true when it was true or a mutation sets it to true; another name has
\* the value of the last mutation that names it, else its value in the
\* state.
ValueAfter(state, changes, v) ==
    IF v \in FlagClass
    THEN MapGet(state, v) \/ \E k \in ChangesOf(changes, v) : ChangedValue(changes[k])
    ELSE IF ChangesOf(changes, v) = {} THEN MapGet(state, v)
    ELSE LastValue(changes, v)

\* The name v is in the state vector the mutations of a choice make from a
\* state.
PresentAfter(state, changes, v) ==
    \/ v \in DOMAIN state
    \/ \E k \in ChangesOf(changes, v) : v \notin FlagClass \/ ChangedValue(changes[k])

\* The choice whose edge has just been made, and the scenes of the units of
\* its source and of its target.
ChoiceAtRegister == ast.Knots[NodeAt(currentNode).KnotName].Choices[ci]
SourceScene == ast.Knots[NodeAt(currentNode).KnotName].Scene
TargetScene == ast.Knots[NodeAt(nextNode).KnotName].Scene

\* C33 (no purge inside a scene): when the edge of a choice has been made
\* and the units of its source and of its target have the same scene label
\* (both empty and the same unit included), every local variable has in the
\* state of the target the value the mutations of the choice give it from
\* the state of the source; one that is true and not mutated is true.
C33_NoPurgeInsideScene ==
    (pc = "register" /\ SourceScene = TargetScene) =>
        \A v \in LocalClass :
            /\ v \in DOMAIN StateAt(nextNode)
            /\ StateAt(nextNode)[v]
                 = ValueAfter(StateAt(currentNode), ChoiceAtRegister.StateChanges, v)

\* An edge has been made between two units of the scene "s1" by a choice
\* without a mutation of l, and l is true in the source and in the target.
C33_Witness ==
    /\ pc = "register"
    /\ SourceScene = "s1" /\ TargetScene = "s1"
    /\ NodeAt(currentNode).KnotName # NodeAt(nextNode).KnotName
    /\ ChangesOf(ChoiceAtRegister.StateChanges, "l") = {}
    /\ "l" \in LocalClass
    /\ StateAt(currentNode)["l"] /\ StateAt(nextNode)["l"]

\* C34 (purge touches only local variables): when the edge of a choice has
\* been made and the units of its source and of its target have different
\* scene labels, every name that is no local variable (global, flag or
\* undeclared) is in the state of the target exactly when the mutations of
\* the choice leave it in the state vector, with the value they give it
\* from the state of the source.
C34_PurgeOnlyLocals ==
    (pc = "register" /\ SourceScene # TargetScene) =>
        \A v \in Names \ LocalClass :
            /\ v \in DOMAIN StateAt(nextNode)
                 <=> PresentAfter(StateAt(currentNode), ChoiceAtRegister.StateChanges, v)
            /\ v \in DOMAIN StateAt(nextNode) =>
                 StateAt(nextNode)[v]
                   = ValueAfter(StateAt(currentNode), ChoiceAtRegister.StateChanges, v)

\* An edge has been made across a change of scene from a state in which the
\* local variable l and a variable that is not local are true: l is false
\* in the target, the other is still true.
C34_Witness ==
    /\ pc = "register"
    /\ SourceScene # TargetScene
    /\ "l" \in LocalClass
    /\ StateAt(currentNode)["l"] /\ ~StateAt(nextNode)["l"]
    /\ \E v \in DOMAIN StateAt(currentNode) \ LocalClass :
         /\ ChangesOf(ChoiceAtRegister.StateChanges, v) = {}
         /\ StateAt(currentNode)[v] /\ StateAt(nextNode)[v]


\* The destination of the choice c of unit is a non-existent unit: its
\* target, or the name of its anchor, is the name of no unit.
MissingDestination(unit, c) ==
    \/ RefDestination(unit, c) # "" /\ RefDestination(unit, c) \notin DOMAIN ast.Knots
    \/ c.Stitch # << >> /\ Str[TrimPrefix(c.Stitch, ".")] \notin DOMAIN ast.Knots

\* Some choice whose destination is a non-existent unit is enabled in a
\* reachable state of its unit.
MissingDestinationEnabled ==
    \E p \in ReachablePairs :
        \E i \in 1..Len(ast.Knots[p[1]].Choices) :
            /\ MissingDestination(p[1], ast.Knots[p[1]].Choices[i])
            /\ EnabledIn(ast.Knots[p[1]].Choices[i], p[2])

\* buildGraph has returned the error of a non-existent destination.
FailedOnDestination ==
    /\ ret.returned
    /\ \E name \in { "nowhere", "top" } :
         ret.err = "choice leads to non-existent knot: '" \o name \o "'"

\* C35 (failure depends only on reachable, enabled choices): the build of a
\* script with the unit index fails on a non-existent destination if and
\* only if a choice with such a destination is enabled in a reachable state
\* of its unit; when every such choice sits in a unit that is not reached
\* or has a condition that is false in every reachable state of its unit,
\* and no mutation is malformed, the build succeeds and returns its graph.
C35_FailureOnlyIfReachable ==
    (pc = "done" /\ script.err = "" /\ "index" \in DOMAIN ast.Knots) =>
        /\ FailedOnDestination <=> MissingDestinationEnabled
        /\ (~MissingDestinationEnabled /\ ~HasMalformedMutation)
              => (Succeeded /\ out.err = "" /\ out.value # Nil)

\* C35 for the scripts whose choices carry no local-anchor marker.
C35_FailureOnlyIfReachableNoAnchors == NoAnchors => C35_FailureOnlyIfReachable


\* C36 (the end-of-path flag does not stop traversal): the end flag of
\* every node is the end flag of its unit, and after a successful build a
\* node of a unit marked END was explored and has one edge per choice of
\* its unit that is enabled in its state and resolves to a destination, in
\* declared order, each to a registered node, as the nodes of the other
\* units have.
C36_EndDoesNotStop ==
    /\ \A n \in 1..Len(nodeHeap) : NodeAt(n).IsEnd = ast.Knots[NodeAt(n).KnotName].IsEnd
    /\ Succeeded =>
         \A id \in DOMAIN graph :
             LET node == NodeAt(graph[id])
                 kept == EdgeChoices(node.KnotName, StateAt(graph[id]))
             IN  node.IsEnd =>
                    /\ \E k \in 1..Len(explored) : explored[k] = graph[id]
                    /\ Len(node.Edges) = Len(kept)
                    /\ \A i \in 1..Len(kept) :
                         /\ node.Edges[i].Text = kept[i].Text
                         /\ node.Edges[i].TargetNodeID \in DOMAIN graph

\* A successful build with a node of a unit marked END that has two edges,
\* one of them to a node that was registered after it: a successor found
\* from the end node.
C36_Witness ==
    /\ Succeeded
    /\ \E j, k \in 1..Len(registered) :
         /\ j < k
         /\ NodeAt(graph[registered[j]]).IsEnd
         /\ ~NodeAt(graph[registered[k]]).IsEnd
         /\ Len(NodeAt(graph[registered[j]]).Edges) = 2
         /\ registered[k] \in TargetsOf({ registered[j] })
         /\ \A i \in 1..(j - 1) : registered[k] \notin TargetsOf({ registered[i] })


\* The canonical identity of a node: its unit name, '|', and the items of
\* its state vector in lexicographic order of the names.
CanonicalIdentity(ref) ==
    NodeAt(ref).KnotName \o "|" \o ItemsJoined(NamesInOrder(StateAt(ref)), StateAt(ref))

====
